---- MODULE Spec2Model ----
(***************************************************************************)
(* Rasa UI customizer: the per-domain CSS rule store (lib/storage), the    *)
(* in-memory snapshot store and the message handlers of the background     *)
(* script (entrypoints/background), and the tool-calling loop (lib/ai).    *)
(*                                                                         *)
(* Strings that the code takes apart (selectors, css) are sequences of     *)
(* one-symbol strings.  A JavaScript property that is missing is Absent, a *)
(* property that is present with the value undefined is Undefined.         *)
(***************************************************************************)
EXTENDS Integers, Sequences, FiniteSets, TLC

\* ------------------------------------------------------------------ bounds
\* the largest reading of Date.now()
MaxClock == 2
\* GENERATE_STYLES requests (snapshot ids) per domain
MaxRuns == 2
\* function calls in one provider response
MaxBatch == 2
\* operations logged by one run
MaxLog == 2
\* rounds of a run with the richer tool-call responses
MaxRounds == 1
\* requests the background script takes in Spec
MaxMessages == 3
\* saveSnapshot calls for one domain in SpecCap
MaxSaves == 22
\* in-place changes of the caller's array
MaxMutations == 1
\* symbols of a selector string in SpecPure
MaxSelectorLen == 4
\* calls in the history of SpecLog
MaxHistory == 3
\* runs of generateStyles in SpecAgent
MaxAgentRuns == 1
\* runs of generateStyles in SpecThink
MaxThinkRuns == 2
\* rounds of SpecThink whose response may hold function calls
MaxThinkRounds == 2
\* thought texts one run collects
MaxThoughts == 3
\* calls of onPick in SpecPick
MaxPicks == 2
\* clearSnapshotsFrom calls of the caller
MaxClears == 1

\* ------------------------------------------------------- program constants
MAX_SNAPSHOTS_PER_DOMAIN == 20
MAX_TOOL_ITERATIONS == 10
MAX_RETRIES == 2

\* ------------------------------------------------------------ JS values
Absent == "<absent>"
Undefined == "<undefined>"

Min(a, b) == IF a <= b THEN a ELSE b

\* ---------------------------------------------------------------- strings
\* UTF-16 code-unit order of the symbols used: '\t' < ' ' < '(' < ',' < 'a'
\* < 'b' < 'p' < 'q'.  "(manual)" and "(migrated)" are single symbols; they differ
\* at their third character ('a' < 'i').
SPACE == " "
TAB == "\t"
COMMA == ","

\* the characters \s matches and trim() strips
Whitespace == {SPACE, TAB}

CharRank(c) ==
  CASE c = "\t" -> -1
    [] c = " " -> 0
    [] c = "(manual)" -> 1
    [] c = "(migrated)" -> 2
    [] c = "," -> 3
    [] c = "a" -> 4
    [] c = "b" -> 5
    [] c = "p" -> 6
    [] c = "q" -> 7
    [] OTHER -> 8

\* String.prototype.split(',')
RECURSIVE split(_)
split(s) ==
  IF \A i \in 1..Len(s) : s[i] # COMMA
  THEN <<s>>
  ELSE LET k == CHOOSE i \in 1..Len(s) :
                  s[i] = COMMA /\ \A j \in 1..(i - 1) : s[j] # COMMA
       IN <<SubSeq(s, 1, k - 1)>> \o split(SubSeq(s, k + 1, Len(s)))

\* trim() stripping one whitespace character at each end at most
trimOne(s) ==
  LET t == IF s # <<>> /\ Head(s) \in Whitespace THEN Tail(s) ELSE s
  IN IF t # <<>> /\ t[Len(t)] \in Whitespace THEN SubSeq(t, 1, Len(t) - 1)
     ELSE t

\* String.prototype.trim()
RECURSIVE trim(_)
trim(s) ==
  IF s = <<>> THEN s
  ELSE IF Head(s) \in Whitespace THEN trim(Tail(s))
  ELSE IF s[Len(s)] \in Whitespace THEN trim(SubSeq(s, 1, Len(s) - 1))
  ELSE s

\* .replace(/\s+/g, ' '): every run of whitespace becomes one space
RECURSIVE collapseWhitespace(_)
collapseWhitespace(s) ==
  IF s = <<>> THEN s
  ELSE IF s[1] \in Whitespace
  THEN IF Len(s) >= 2 /\ s[2] \in Whitespace
       THEN collapseWhitespace(Tail(s))
       ELSE <<SPACE>> \o collapseWhitespace(Tail(s))
  ELSE <<s[1]>> \o collapseWhitespace(Tail(s))

\* a < b in the order Array.prototype.sort() uses without a comparator
RECURSIVE strLess(_, _)
strLess(a, b) ==
  IF b = <<>> THEN FALSE
  ELSE IF a = <<>> THEN TRUE
  ELSE IF CharRank(a[1]) # CharRank(b[1]) THEN CharRank(a[1]) < CharRank(b[1])
  ELSE strLess(Tail(a), Tail(b))

\* sort() leaving the array as it is
unsorted(xs) == xs

\* Array.prototype.sort(): stable insertion into an ascending list
RECURSIVE insertSorted(_, _)
insertSorted(x, xs) ==
  IF xs = <<>> THEN <<x>>
  ELSE IF strLess(x, Head(xs)) THEN <<x>> \o xs
  ELSE <<Head(xs)>> \o insertSorted(x, Tail(xs))

RECURSIVE sort(_)
sort(xs) ==
  IF xs = <<>> THEN <<>>
  ELSE insertSorted(xs[Len(xs)], sort(SubSeq(xs, 1, Len(xs) - 1)))

\* Array.prototype.join(sep)
RECURSIVE join(_, _)
join(xs, sep) ==
  IF xs = <<>> THEN <<>>
  ELSE IF Len(xs) = 1 THEN xs[1]
  ELSE xs[1] \o sep \o join(Tail(xs), sep)

selectorToId(selector) ==
  LET segs == split(selector)
      norm == [i \in 1..Len(segs) |-> collapseWhitespace(trim(segs[i]))]
  IN join(sort(norm), <<COMMA, SPACE>>)

\* ------------------------------------------------------------- rule store
Null == [kind |-> "null"]
NoEntry == [kind |-> "none"]

\* A rule's properties by the type of their values: numbers, strings taken
\* apart (sequences of symbols) and plain strings.  AbsentOf(f) is property f
\* missing from an object, UndefinedOf(f) is f present with value undefined.
AbsentOf(f) ==
  IF f \in {"createdAt", "updatedAt"} THEN -1
  ELSE IF f \in {"id", "selector", "css"} THEN <<Absent>>
  ELSE Absent

UndefinedOf(f) ==
  IF f \in {"createdAt", "updatedAt"} THEN -2
  ELSE IF f \in {"id", "selector", "css"} THEN <<Undefined>>
  ELSE Undefined

RuleProps ==
  {"id", "selector", "css", "description", "createdBy", "updatedBy",
   "createdAt", "updatedAt"}

NoProps == [f \in RuleProps |-> AbsentOf(f)]

\* What chrome.storage.local.set / JSON.stringify keep of a rule: a property
\* whose value is undefined is dropped.
jsonRule(r) ==
  [f \in RuleProps |-> IF r[f] = UndefinedOf(f) THEN AbsentOf(f) ELSE r[f]]

jsonRules(rules) == [i \in 1..Len(rules) |-> jsonRule(rules[i])]

\* Object spread {...a, ...b} over the properties of a rule
spread(a, b) == [f \in RuleProps |-> IF b[f] # AbsentOf(f) THEN b[f] ELSE a[f]]

\* rules.findIndex(r => r.id === ruleId), 0 standing for -1
findIndex(rules, ruleId) ==
  IF \E i \in 1..Len(rules) : rules[i].id = ruleId
  THEN CHOOSE i \in 1..Len(rules) :
         rules[i].id = ruleId /\ \A j \in 1..(i - 1) : rules[j].id # ruleId
  ELSE 0

MIGRATED == <<"(migrated)">>
MANUAL == <<"(manual)">>

\* migrateLegacyStyles keeping the trimmed css
migrateLegacyStylesTrimming(legacy) ==
  [kind |-> "styles",
   domain |-> legacy.domain,
   rules |-> IF legacy.css # <<>> /\ trim(legacy.css) # <<>>
             THEN <<[NoProps EXCEPT !.id = MIGRATED,
                                    !.selector = MIGRATED,
                                    !.css = trim(legacy.css),
                                    !.description = "Migrated from legacy format",
                                    !.createdBy = "user",
                                    !.createdAt = legacy.createdAt,
                                    !.updatedAt = legacy.updatedAt]>>
             ELSE <<>>,
   enabled |-> legacy.enabled,
   createdAt |-> legacy.createdAt,
   updatedAt |-> legacy.updatedAt]

migrateLegacyStyles(legacy) ==
  [kind |-> "styles",
   domain |-> legacy.domain,
   rules |-> IF legacy.css # <<>> /\ trim(legacy.css) # <<>>
             THEN <<[NoProps EXCEPT !.id = MIGRATED,
                                    !.selector = MIGRATED,
                                    !.css = legacy.css,
                                    !.description = "Migrated from legacy format",
                                    !.createdBy = "user",
                                    !.createdAt = legacy.createdAt,
                                    !.updatedAt = legacy.updatedAt]>>
             ELSE <<>>,
   enabled |-> legacy.enabled,
   createdAt |-> legacy.createdAt,
   updatedAt |-> legacy.updatedAt]

isLegacyFormat(styles) == styles.kind = "legacy"

getAllStyles(store) == store

\* t is the reading of Date.now() the save takes
saveSiteStyles(store, domain, styles, t) ==
  [store EXCEPT ![domain] =
     [kind |-> "styles",
      domain |-> domain,
      rules |-> jsonRules(styles.rules),
      enabled |-> styles.enabled,
      createdAt |-> styles.createdAt,
      updatedAt |-> t]]

\* returns the storage after the call and the value returned
getSiteStyles(store, domain, t) ==
  LET styles == getAllStyles(store)[domain]
  IN IF styles = NoEntry THEN [store |-> store, ret |-> Null]
     ELSE IF isLegacyFormat(styles)
     THEN LET migrated == migrateLegacyStyles(styles)
          IN [store |-> saveSiteStyles(store, domain, migrated, t),
              ret |-> migrated]
     ELSE [store |-> store, ret |-> styles]

\* the rules a rule-store call finds for domain: a legacy record is migrated
rulesFound(store, domain) ==
  LET g == getSiteStyles(store, domain, 0)
  IN IF g.ret = Null THEN <<>> ELSE g.ret.rules

toggleSiteStyles(store, domain, enabled, t0, t1) ==
  LET g == getSiteStyles(store, domain, t0)
  IN IF g.ret # Null
     THEN saveSiteStyles(g.store, domain, [g.ret EXCEPT !.enabled = enabled], t1)
     ELSE g.store

clearSiteStyles(store, domain) == [store EXCEPT ![domain] = NoEntry]

\* addRule without the test for an existing rule of the same id
addRuleAppending(store, domain, rule, t0, now, t1) ==
  LET g == getSiteStyles(store, domain, t0)
      styles == g.ret
      ruleId == selectorToId(rule.selector)
      newRule ==
        spread(spread(NoProps, rule),
               [NoProps EXCEPT !.id = ruleId, !.createdAt = now, !.updatedAt = now])
  IN IF styles # Null
     THEN [store |-> saveSiteStyles(g.store, domain,
                       [styles EXCEPT !.rules = Append(@, newRule)], t1),
           ret |-> newRule]
     ELSE [store |-> saveSiteStyles(g.store, domain,
                       [rules |-> <<newRule>>, enabled |-> TRUE,
                        createdAt |-> now, updatedAt |-> now], t1),
           ret |-> newRule]

\* addRule replacing a rule of the same id by the new rule
addRuleReplacing(store, domain, rule, t0, now, t1) ==
  LET g == getSiteStyles(store, domain, t0)
      styles == g.ret
      ruleId == selectorToId(rule.selector)
      existingIndex == IF styles = Null THEN 0 ELSE findIndex(styles.rules, ruleId)
      newRule ==
        spread(spread(NoProps, rule),
               [NoProps EXCEPT !.id = ruleId, !.createdAt = now, !.updatedAt = now])
  IN IF styles # Null /\ existingIndex # 0
     THEN [store |-> saveSiteStyles(g.store, domain,
                       [styles EXCEPT !.rules[existingIndex] = newRule], t1),
           ret |-> newRule]
     ELSE IF styles # Null
     THEN [store |-> saveSiteStyles(g.store, domain,
                       [styles EXCEPT !.rules = Append(@, newRule)], t1),
           ret |-> newRule]
     ELSE [store |-> saveSiteStyles(g.store, domain,
                       [rules |-> <<newRule>>, enabled |-> TRUE,
                        createdAt |-> now, updatedAt |-> now], t1),
           ret |-> newRule]

\* rule = {selector, css, description, createdBy}; t0 <= now <= t1 are the
\* clock readings of the migration save, of addRule and of its save
addRule(store, domain, rule, t0, now, t1) ==
  LET g == getSiteStyles(store, domain, t0)
      styles == g.ret
      ruleId == selectorToId(rule.selector)
      existingIndex == IF styles = Null THEN 0 ELSE findIndex(styles.rules, ruleId)
      updatedRule ==
        spread(styles.rules[existingIndex],
               [NoProps EXCEPT !.css = rule.css,
                               !.description = rule.description,
                               !.updatedBy = rule.createdBy,
                               !.updatedAt = now])
      newRule ==
        spread(spread(NoProps, rule),
               [NoProps EXCEPT !.id = ruleId, !.createdAt = now, !.updatedAt = now])
  IN IF styles # Null /\ existingIndex # 0
     THEN [store |-> saveSiteStyles(g.store, domain,
                       [styles EXCEPT !.rules[existingIndex] = updatedRule], t1),
           ret |-> updatedRule]
     ELSE IF styles # Null
     THEN [store |-> saveSiteStyles(g.store, domain,
                       [styles EXCEPT !.rules = Append(@, newRule)], t1),
           ret |-> newRule]
     ELSE [store |-> saveSiteStyles(g.store, domain,
                       [rules |-> <<newRule>>, enabled |-> TRUE,
                        createdAt |-> now, updatedAt |-> now], t1),
           ret |-> newRule]

\* editRule saving the aggregate also when it holds no rule of the id
editRuleSavingAlways(store, domain, ruleId, updates, t0, now, t1) ==
  LET g == getSiteStyles(store, domain, t0)
      styles == g.ret
      ruleIndex == IF styles = Null THEN 0 ELSE findIndex(styles.rules, ruleId)
      updatedRule ==
        spread(spread(styles.rules[ruleIndex], updates),
               [NoProps EXCEPT !.updatedAt = now])
  IN IF styles = Null
     THEN [store |-> g.store, ret |-> Null]
     ELSE IF ruleIndex = 0
     THEN [store |-> saveSiteStyles(g.store, domain, styles, t1), ret |-> Null]
     ELSE [store |-> saveSiteStyles(g.store, domain,
                       [styles EXCEPT !.rules[ruleIndex] = updatedRule], t1),
           ret |-> updatedRule]

\* updates = {css, description, updatedBy}, a missing key being Absent
editRule(store, domain, ruleId, updates, t0, now, t1) ==
  LET g == getSiteStyles(store, domain, t0)
      styles == g.ret
      ruleIndex == IF styles = Null THEN 0 ELSE findIndex(styles.rules, ruleId)
      updatedRule ==
        spread(spread(styles.rules[ruleIndex], updates),
               [NoProps EXCEPT !.updatedAt = now])
  IN IF styles = Null \/ ruleIndex = 0
     THEN [store |-> g.store, ret |-> Null]
     ELSE [store |-> saveSiteStyles(g.store, domain,
                       [styles EXCEPT !.rules[ruleIndex] = updatedRule], t1),
           ret |-> updatedRule]

\* splice removing nothing
spliceNone(rules, i) == rules

\* rules.splice(ruleIndex, 1)
splice1(rules, i) == SubSeq(rules, 1, i - 1) \o SubSeq(rules, i + 1, Len(rules))

deleteRule(store, domain, ruleId, t0, t1) ==
  LET g == getSiteStyles(store, domain, t0)
      styles == g.ret
      ruleIndex == IF styles = Null THEN 0 ELSE findIndex(styles.rules, ruleId)
  IN IF styles = Null \/ ruleIndex = 0
     THEN [store |-> g.store, ret |-> FALSE]
     ELSE [store |-> saveSiteStyles(g.store, domain,
                       [styles EXCEPT !.rules = splice1(@, ruleIndex)], t1),
           ret |-> TRUE]

\* rules.filter(r => ruleIds.includes(r.id))
RECURSIVE filterByIds(_, _)
filterByIds(rules, ruleIds) ==
  IF rules = <<>> THEN <<>>
  ELSE (IF \E i \in 1..Len(ruleIds) : ruleIds[i] = Head(rules).id
        THEN <<Head(rules)>> ELSE <<>>) \o filterByIds(Tail(rules), ruleIds)

getRules(store, domain, ruleIds, t0) ==
  LET g == getSiteStyles(store, domain, t0)
  IN [store |-> g.store,
      ret |-> IF g.ret = Null THEN <<>> ELSE filterByIds(g.ret.rules, ruleIds)]

getRuleSummaries(styles) ==
  [i \in 1..Len(styles.rules) |->
     [id |-> styles.rules[i].id,
      description |-> styles.rules[i].description,
      createdBy |-> styles.rules[i].createdBy,
      updatedBy |-> styles.rules[i].updatedBy]]

\* compileRulesToCSS joining with a single newline
compileRulesToCSSNoBlankLine(styles) ==
  join([i \in 1..Len(styles.rules) |->
          IF styles.rules[i].css = <<Absent>> THEN <<>> ELSE styles.rules[i].css],
       <<"\n">>)

\* styles.rules.map(r => r.css).join('\n\n'); join takes undefined as ''
compileRulesToCSS(styles) ==
  join([i \in 1..Len(styles.rules) |->
          IF styles.rules[i].css = <<Absent>> THEN <<>> ELSE styles.rules[i].css],
       <<"\n", "\n">>)

\* ---------------------------------------------------------- snapshot store
\* snapshotStore[domain] is the inner Map in insertion order, a sequence of
\* [id, rules]; rules is a reference to an array in heap.  A reference names
\* who made the array: the copy saveSnapshot makes for a key, or a caller.
refOf(owner, domain, key) == [owner |-> owner, domain |-> domain, key |-> key]

NoHeap == [r \in {} |-> <<>>]

alloc(h, r, value) ==
  [heap |-> [x \in DOMAIN h \cup {r} |-> IF x = r THEN value ELSE h[x]],
   ref |-> r]

\* domainSnapshots.has(messageId): its index, 0 when missing
keyIndex(domainSnapshots, messageId) ==
  IF \E i \in 1..Len(domainSnapshots) : domainSnapshots[i].id = messageId
  THEN CHOOSE i \in 1..Len(domainSnapshots) : domainSnapshots[i].id = messageId
  ELSE 0

\* Map.prototype.set: a new key goes last, an old key keeps its place
mapSet(domainSnapshots, messageId, ref) ==
  IF keyIndex(domainSnapshots, messageId) # 0
  THEN [domainSnapshots EXCEPT ![keyIndex(domainSnapshots, messageId)].rules = ref]
  ELSE Append(domainSnapshots, [id |-> messageId, rules |-> ref])

\* saveSnapshot keeping the array passed in instead of a copy
saveSnapshotByReference(snaps, h, domain, messageId, rules) ==
  LET domainSnapshots == mapSet(snaps[domain], messageId, rules)
      size == Len(domainSnapshots)
      pruned ==
        IF size > MAX_SNAPSHOTS_PER_DOMAIN
        THEN SubSeq(domainSnapshots, size - MAX_SNAPSHOTS_PER_DOMAIN + 1, size)
        ELSE domainSnapshots
  IN [snaps |-> [snaps EXCEPT ![domain] = pruned], heap |-> h]

\* saveSnapshot pruning only when the size exceeds the cap by more than one
saveSnapshotLatePruning(snaps, h, domain, messageId, rules) ==
  LET clone == alloc(h, refOf("snapshot", domain, messageId), jsonRules(h[rules]))
      domainSnapshots == mapSet(snaps[domain], messageId, clone.ref)
      size == Len(domainSnapshots)
      pruned ==
        IF size > MAX_SNAPSHOTS_PER_DOMAIN + 1
        THEN SubSeq(domainSnapshots, size - MAX_SNAPSHOTS_PER_DOMAIN + 1, size)
        ELSE domainSnapshots
  IN [snaps |-> [snaps EXCEPT ![domain] = pruned], heap |-> clone.heap]

\* saveSnapshot pruning the newest snapshots instead of the oldest
saveSnapshotEvictingNewest(snaps, h, domain, messageId, rules) ==
  LET clone == alloc(h, refOf("snapshot", domain, messageId), jsonRules(h[rules]))
      domainSnapshots == mapSet(snaps[domain], messageId, clone.ref)
      size == Len(domainSnapshots)
      pruned ==
        IF size > MAX_SNAPSHOTS_PER_DOMAIN
        THEN SubSeq(domainSnapshots, 1, MAX_SNAPSHOTS_PER_DOMAIN)
        ELSE domainSnapshots
  IN [snaps |-> [snaps EXCEPT ![domain] = pruned], heap |-> clone.heap]

\* rules is the reference of the array passed in
saveSnapshot(snaps, h, domain, messageId, rules) ==
  LET clone == alloc(h, refOf("snapshot", domain, messageId), jsonRules(h[rules]))
      domainSnapshots == mapSet(snaps[domain], messageId, clone.ref)
      size == Len(domainSnapshots)
      pruned ==
        IF size > MAX_SNAPSHOTS_PER_DOMAIN
        THEN SubSeq(domainSnapshots, size - MAX_SNAPSHOTS_PER_DOMAIN + 1, size)
        ELSE domainSnapshots
  IN [snaps |-> [snaps EXCEPT ![domain] = pruned], heap |-> clone.heap]

\* getSnapshot answering with the domain's latest snapshot
getSnapshotLatest(snaps, domain, messageId) ==
  IF keyIndex(snaps[domain], messageId) = 0 THEN Null
  ELSE [kind |-> "ref", ref |-> snaps[domain][Len(snaps[domain])].rules]

\* the stored array's reference, or Null
getSnapshot(snaps, domain, messageId) ==
  IF keyIndex(snaps[domain], messageId) = 0 THEN Null
  ELSE [kind |-> "ref", ref |-> snaps[domain][keyIndex(snaps[domain], messageId)].rules]

RECURSIVE dropIds(_, _)
dropIds(domainSnapshots, messageIds) ==
  IF domainSnapshots = <<>> THEN <<>>
  ELSE (IF Head(domainSnapshots).id \in messageIds THEN <<>>
        ELSE <<Head(domainSnapshots)>>) \o dropIds(Tail(domainSnapshots), messageIds)

\* clearSnapshotsFrom deleting nothing
clearSnapshotsFromNothing(snaps, domain, messageIds) == snaps

clearSnapshotsFrom(snaps, domain, messageIds) ==
  [snaps EXCEPT ![domain] = dropIds(@, messageIds)]

\* Arrays no variable refers to any more are gone from the heap.
reachable(snaps, roots) ==
  roots \cup UNION {{snaps[d][i].rules : i \in 1..Len(snaps[d])} : d \in DOMAIN snaps}

collect(h, snaps, roots) ==
  [r \in DOMAIN h \cap reachable(snaps, roots) |-> h[r]]

\* -------------------------------------------------------------- the tools
DEFAULT_EXPLANATION == <<"Styles updated.">>

NoInput ==
  [selector |-> <<Absent>>, selectors |-> <<>>, css |-> <<Absent>>,
   description |-> Absent, explanation |-> <<Absent>>]

\* JavaScript truthiness of a string-valued property
truthy(str) == str # <<>> /\ str # <<Absent>> /\ str # <<Undefined>>

\* toolInput.description as string | undefined
orUndefined(v) == IF v = Absent THEN Undefined ELSE v

\* toolInput.css as string, undefined when the call has no css
cssOrUndefined(v) == IF v = <<Absent>> THEN <<Undefined>> ELSE v

NoCall == [fn |-> "none"]

\* selectorToId(undefined): undefined has no split, a TypeError.  add_rule
\* passes toolInput.selector to addRule, edit_rule and delete_rule pass it to
\* selectorToId themselves.
throwsTypeError(toolName, toolInput) ==
  /\ toolName \in {"add_rule", "edit_rule", "delete_rule"}
  /\ toolInput.selector = <<Absent>>

\* addRule has read the domain's styles when selectorToId throws
storeAtThrow(store, toolName, domain, t0) ==
  IF toolName = "add_rule" THEN getSiteStyles(store, domain, t0).store ELSE store

\* list_rules with an entry in the operation log
toolListRulesLogging(store, toolInput, domain, ops, t0, now, t1) ==
  LET g == getSiteStyles(store, domain, t0)
  IN [store |-> g.store,
      operations |-> Append(ops, [op |-> "list"]),
      result |-> IF g.ret = Null \/ g.ret.rules = <<>>
                 THEN <<"No CSS rules currently saved for this site.">>
                 ELSE <<"JSON", getRuleSummaries(g.ret)>>,
      finished |-> FALSE, explanation |-> <<Undefined>>,
      call |-> [fn |-> "getSiteStyles", domain |-> domain]]

\* A tool's outcome: the storage and the operation log after the call, the
\* tool result, the finished flag and explanation, and the rule-store call
\* made.  t0 <= now <= t1 are the clock readings the store call takes.
toolListRules(store, toolInput, domain, ops, t0, now, t1) ==
  LET g == getSiteStyles(store, domain, t0)
  IN [store |-> g.store, operations |-> ops,
      result |-> IF g.ret = Null \/ g.ret.rules = <<>>
                 THEN <<"No CSS rules currently saved for this site.">>
                 ELSE <<"JSON", getRuleSummaries(g.ret)>>,
      finished |-> FALSE, explanation |-> <<Undefined>>,
      call |-> [fn |-> "getSiteStyles", domain |-> domain]]

toolReadRules(store, toolInput, domain, ops, t0, now, t1) ==
  LET selectors == toolInput.selectors
      ruleIds == [i \in 1..Len(selectors) |-> selectorToId(selectors[i])]
      g == getRules(store, domain, ruleIds, t0)
  IN IF Len(selectors) = 0
     THEN [store |-> store, operations |-> ops,
           result |-> <<"No selectors provided.">>,
           finished |-> FALSE, explanation |-> <<Undefined>>,
           call |-> NoCall]
     ELSE [store |-> g.store, operations |-> ops,
           result |-> IF g.ret = <<>>
                      THEN <<"No rules found with the specified selectors.">>
                      ELSE <<"JSON",
                             [i \in 1..Len(g.ret) |->
                                [id |-> g.ret[i].id, css |-> g.ret[i].css,
                                 description |-> g.ret[i].description]]>>,
           finished |-> FALSE, explanation |-> <<Undefined>>,
           call |-> [fn |-> "getRules", domain |-> domain]]

toolAddRule(store, toolInput, domain, ops, t0, now, t1) ==
  LET description == orUndefined(toolInput.description)
      css == cssOrUndefined(toolInput.css)
      rule == [NoProps EXCEPT !.selector = toolInput.selector,
                              !.css = css,
                              !.description = description,
                              !.createdBy = "ai"]
      a == addRule(store, domain, rule, t0, now, t1)
  IN [store |-> a.store,
      operations |-> Append(ops, [op |-> "add", selector |-> a.ret.id,
                                  css |-> css,
                                  description |-> description]),
      result |-> <<"Rule added/updated for selector: ", a.ret.id>>,
      finished |-> FALSE, explanation |-> <<Undefined>>,
      call |-> [fn |-> "addRule", domain |-> domain, rule |-> rule,
                ret |-> a.ret]]

\* edit_rule looking the selector up as it was given
toolEditRuleBySelector(store, toolInput, domain, ops, t0, now, t1) ==
  LET description == orUndefined(toolInput.description)
      css == cssOrUndefined(toolInput.css)
      ruleId == toolInput.selector
      updates == [NoProps EXCEPT !.css = css,
                                 !.description = description,
                                 !.updatedBy = "ai"]
      e == editRule(store, domain, ruleId, updates, t0, now, t1)
  IN [store |-> e.store,
      operations |-> IF e.ret = Null THEN ops
                     ELSE Append(ops, [op |-> "edit", ruleId |-> ruleId,
                                       css |-> css,
                                       description |-> description]),
      result |-> IF e.ret = Null
                 THEN <<"Error:", " No rule found for selector ",
                        toolInput.selector>>
                 ELSE <<"Rule ", ruleId, " updated successfully.">>,
      finished |-> FALSE, explanation |-> <<Undefined>>,
      call |-> [fn |-> "editRule", domain |-> domain, ruleId |-> ruleId,
                updates |-> updates, ret |-> e.ret]]

\* edit_rule logging the operation whether or not the rule was found
toolEditRuleLoggingAll(store, toolInput, domain, ops, t0, now, t1) ==
  LET description == orUndefined(toolInput.description)
      css == cssOrUndefined(toolInput.css)
      ruleId == selectorToId(toolInput.selector)
      updates == [NoProps EXCEPT !.css = css,
                                 !.description = description,
                                 !.updatedBy = "ai"]
      e == editRule(store, domain, ruleId, updates, t0, now, t1)
  IN [store |-> e.store,
      operations |-> Append(ops, [op |-> "edit", ruleId |-> ruleId,
                                  css |-> css,
                                  description |-> description]),
      result |-> IF e.ret = Null
                 THEN <<"Error:", " No rule found for selector ",
                        toolInput.selector>>
                 ELSE <<"Rule ", ruleId, " updated successfully.">>,
      finished |-> FALSE, explanation |-> <<Undefined>>,
      call |-> [fn |-> "editRule", domain |-> domain, ruleId |-> ruleId,
                updates |-> updates, ret |-> e.ret]]

toolEditRule(store, toolInput, domain, ops, t0, now, t1) ==
  LET description == orUndefined(toolInput.description)
      css == cssOrUndefined(toolInput.css)
      ruleId == selectorToId(toolInput.selector)
      updates == [NoProps EXCEPT !.css = css,
                                 !.description = description,
                                 !.updatedBy = "ai"]
      e == editRule(store, domain, ruleId, updates, t0, now, t1)
  IN [store |-> e.store,
      operations |-> IF e.ret = Null THEN ops
                     ELSE Append(ops, [op |-> "edit", ruleId |-> ruleId,
                                       css |-> css,
                                       description |-> description]),
      result |-> IF e.ret = Null
                 THEN <<"Error:", " No rule found for selector ",
                        toolInput.selector>>
                 ELSE <<"Rule ", ruleId, " updated successfully.">>,
      finished |-> FALSE, explanation |-> <<Undefined>>,
      call |-> [fn |-> "editRule", domain |-> domain, ruleId |-> ruleId,
                updates |-> updates, ret |-> e.ret]]

\* delete_rule answering a missing rule like a deleted one
toolDeleteRuleIgnoringResult(store, toolInput, domain, ops, t0, now, t1) ==
  LET ruleId == selectorToId(toolInput.selector)
      x == deleteRule(store, domain, ruleId, t0, t1)
  IN [store |-> x.store,
      operations |-> Append(ops, [op |-> "delete", ruleId |-> ruleId]),
      result |-> <<"Rule ", ruleId, " deleted successfully.">>,
      finished |-> FALSE, explanation |-> <<Undefined>>,
      call |-> [fn |-> "deleteRule", domain |-> domain, ruleId |-> ruleId,
                ret |-> x.ret]]

toolDeleteRule(store, toolInput, domain, ops, t0, now, t1) ==
  LET ruleId == selectorToId(toolInput.selector)
      x == deleteRule(store, domain, ruleId, t0, t1)
  IN [store |-> x.store,
      operations |-> IF x.ret THEN Append(ops, [op |-> "delete",
                                                ruleId |-> ruleId])
                     ELSE ops,
      result |-> IF x.ret
                 THEN <<"Rule ", ruleId, " deleted successfully.">>
                 ELSE <<"Error:", " No rule found for selector ",
                        toolInput.selector>>,
      finished |-> FALSE, explanation |-> <<Undefined>>,
      call |-> [fn |-> "deleteRule", domain |-> domain, ruleId |-> ruleId,
                ret |-> x.ret]]

toolFinish(store, toolInput, domain, ops, t0, now, t1) ==
  [store |-> store, operations |-> ops, result |-> <<"Completed.">>,
   finished |-> TRUE, explanation |-> toolInput.explanation,
   call |-> NoCall]

executeTool(store, toolName, toolInput, domain, ops, t0, now, t1) ==
  CASE toolName = "list_rules" ->
         toolListRules(store, toolInput, domain, ops, t0, now, t1)
    [] toolName = "read_rules" ->
         toolReadRules(store, toolInput, domain, ops, t0, now, t1)
    [] toolName = "add_rule" ->
         toolAddRule(store, toolInput, domain, ops, t0, now, t1)
    [] toolName = "edit_rule" ->
         toolEditRule(store, toolInput, domain, ops, t0, now, t1)
    [] toolName = "delete_rule" ->
         toolDeleteRule(store, toolInput, domain, ops, t0, now, t1)
    [] toolName = "finish" ->
         toolFinish(store, toolInput, domain, ops, t0, now, t1)
    [] OTHER ->
         [store |-> store, operations |-> ops,
          result |-> <<"Unknown tool: ", toolName>>,
          finished |-> FALSE, explanation |-> <<Undefined>>, call |-> NoCall]

\* ------------------------------------------------------------------ state
VARIABLES
  siteStyles,        \* chrome.storage.local 'siteStyles': domain -> aggregate
  snapshotStore,     \* domain -> sequence of [id, rules] in insertion order
  heap,              \* the arrays snapshotStore and callers refer to
  live,              \* references a caller of saveSnapshot still holds
  clock,             \* the current reading of Date.now()
  issued,            \* domain -> number of snapshot ids the panel generated
  pc,                \* position of the GENERATE_STYLES handler
  runDomain,         \* domain of the run in progress
  snapshotId,        \* snapshot id of the run in progress
  iteration,
  retryCount,
  operations,
  finalExplanation,
  functionCalls,     \* calls of the current response not executed yet
  functionResponses, \* results of the calls of the current response
  finished,
  requests,          \* history: provider requests sent by the run
  saved,             \* history: retained snapshot id -> rules when it was saved
  storeLog,          \* history: rule-store mutations of the run that succeeded
  onlyToolCalls,     \* history: every response had tool calls with a selector
                     \* where one is required, none of them finish
  batchFinish,       \* history: finish calls of the current response
  lastCall,          \* history: the rule-store call of the last step
  mutations,         \* history: in-place changes made by the caller
  clears,            \* history: calls of clearSnapshotsFrom by the caller
  handled,           \* history: messages the background script has taken
  apiKey,            \* chrome.storage.local holds a 'googleApiKey'
  tab,               \* what the tab of the request answers
  page,              \* the CSS the content script has injected into the page
  response,          \* the reply to the panel's last request, none while it runs
  messages,          \* panel: snapshot ids of the conversation's assistant turns
  error,             \* message of the Error generateStyles has thrown
  conversation,      \* panel: the messages state of ChatInterface
  chatHistory,       \* chrome.storage.local: domain -> saved conversation
  loading,           \* panel: the request handleSubmit waits for, if any
  undoing,           \* panel: the handleUndo calls waiting for their request
  inflight,          \* context -> the storage write its rule-store call is at
  thinkingParts,     \* the thought texts generateStyles has collected
  isActive,          \* element picker: picker mode is on
  currentTarget,     \* element picker: the element under the cursor
  onPickCallback,    \* element picker: onPick of startPicker
  onCancelCallback,  \* element picker: onCancel of startPicker
  picked,            \* the calls of onPick callbacks, in order
  cancelled          \* the calls of onCancel callbacks, in order

storeVars == <<siteStyles, clock>>
snapVars == <<snapshotStore, heap, saved, issued>>
callerVars == <<live, mutations, clears>>
agentVars ==
  <<pc, runDomain, snapshotId, iteration, retryCount, operations,
    finalExplanation, functionCalls, functionResponses, finished, requests,
    storeLog, onlyToolCalls, batchFinish, error>>
envVars == <<apiKey, tab>>
outVars == <<page, response, messages>>
chatVars == <<conversation, chatHistory, loading, undoing>>
awaitVars == <<inflight>>
thinkVars == <<thinkingParts>>
pickVars ==
  <<isActive, currentTarget, onPickCallback, onCancelCallback, picked,
    cancelled>>
vars ==
  <<storeVars, snapVars, callerVars, agentVars, lastCall, handled, envVars,
    chatVars, awaitVars, thinkVars, pickVars, outVars>>

Domains == {"d1", "d2"}

Selectors == {<<"a">>, <<" ", "a">>, MANUAL}
CssBlocks == {<<"p">>, <<"q">>}
Contents == {[css |-> <<"p">>, description |-> Absent],
             [css |-> <<"q">>, description |-> "d1"]}
Explanations == {<<>>, <<"e">>}
\* the first text part of a response: none, empty or some text
Texts == {<<Absent>>, <<>>, <<"t">>}

\* calls without the arguments TOOLS requires: no args at all, and add_rule
\* and edit_rule with a selector and no css
MalformedCalls ==
  {[name |-> n, input |-> NoInput] :
     n \in {"read_rules", "add_rule", "edit_rule", "delete_rule", "finish"}}
  \cup {[name |-> n, input |-> [NoInput EXCEPT !.selector = sel]] :
          n \in {"add_rule", "edit_rule"}, sel \in Selectors}

ToolCalls ==
  {[name |-> "list_rules", input |-> NoInput],
   [name |-> "unknown_tool", input |-> NoInput]}
  \cup {[name |-> "read_rules", input |-> [NoInput EXCEPT !.selectors = <<sel>>]] :
          sel \in Selectors}
  \cup {[name |-> n, input |-> [NoInput EXCEPT !.selector = sel, !.css = c.css,
                                               !.description = c.description]] :
          n \in {"add_rule", "edit_rule"}, sel \in Selectors, c \in Contents}
  \cup {[name |-> "delete_rule", input |-> [NoInput EXCEPT !.selector = sel]] :
          sel \in Selectors}
  \cup {[name |-> "finish", input |-> [NoInput EXCEPT !.explanation = e]] :
          e \in Explanations}
  \cup MalformedCalls

\* the function calls of one response
Batches(calls, maxLen) == UNION {[1..n -> calls] : n \in 1..maxLen}

\* a Date.now() reading taken when the clock showed t
Reads(t) == {t, Min(t + 1, MaxClock)}

\* records of the legacy format: css that is blank, and css that is not
LegacyRecords(d) ==
  {[kind |-> "legacy", domain |-> d, css |-> <<" ">>, enabled |-> FALSE,
    createdAt |-> 0, updatedAt |-> 0],
   [kind |-> "legacy", domain |-> d, css |-> <<"p">>, enabled |-> TRUE,
    createdAt |-> 0, updatedAt |-> 0]}

\* "ready": the content script answers; "noContext": it answers all but
\* GET_PAGE_CONTEXT, which it fails; "noScript": the tab has a URL and no
\* content script, tabs.sendMessage rejects; "noUrl": so, and tab.url is
\* undefined
TabStates == {"ready", "noContext", "noScript", "noUrl"}

API_KEY_MISSING == "API key not configured"
CONTEXT_FAILED == "Failed to get page context"
NO_TAB_URL == "Cannot get tab URL"
NO_STYLES == "No styles saved for this site"
SNAPSHOT_NOT_FOUND == "Snapshot not found - undo unavailable"
INVALID_KEY == "Invalid API key. Please check your Google AI API key."
RATE_LIMITED == "Rate limit exceeded. Please try again later."
NO_CANDIDATES == "No response candidates from Gemini"
\* the messages of the errors the runtime throws
NO_RECEIVER == "Could not establish connection. Receiving end does not exist."
TYPE_ERROR == "Cannot read properties of undefined (reading 'split')"

\* `API request failed with status ${response.status}`
requestFailed(status) ==
  CASE status = 500 -> "API request failed with status 500"
    [] status = 503 -> "API request failed with status 503"
    [] OTHER -> "API request failed"

NoError == Absent
NoStyle == <<Absent>>
NoResponse == [request |-> "none"]

\* ExtensionResponse
Failure(request, message) ==
  [request |-> request, success |-> FALSE, error |-> message]

Success(request) == [request |-> request, success |-> TRUE]

SuccessWith(request, data) ==
  [request |-> request, success |-> TRUE, data |-> data]

\* chrome.tabs.sendMessage reaches a content script
delivers(t) == t \in {"ready", "noContext"}

\* the content script on STYLES_UPDATED
stylesUpdated(css, enabled) == IF enabled THEN css ELSE NoStyle

\* the contexts of the extension whose rule-store calls are followed from
\* await to await in SpecAwait
Contexts == {"c1", "c2"}
NoWrite == [stage |-> "idle"]
\* null as a callback and as an element of the element picker
NoCallback == "null"
NoElement == "null"
NotLoading == [on |-> FALSE, issued |-> 0]

\* a panel just opened on a domain without chat history, no rule-store call
\* under way
InitChat ==
  /\ conversation = <<>>
  /\ chatHistory = [d \in Domains |-> <<>>]
  /\ loading = NotLoading
  /\ undoing = {}
  /\ inflight = [c \in Contexts |-> NoWrite]

\* the module state of the element picker when the content script is loaded
InitPicker ==
  /\ isActive = FALSE
  /\ currentTarget = NoElement
  /\ onPickCallback = NoCallback
  /\ onCancelCallback = NoCallback
  /\ picked = <<>>
  /\ cancelled = <<>>

InitEnv ==
  /\ InitChat
  /\ InitPicker
  /\ apiKey = TRUE
  /\ tab = "ready"
  /\ page = NoStyle
  /\ response = NoResponse
  /\ messages = <<>>

InitAgent ==
  /\ pc = "idle"
  /\ runDomain = "d1"
  /\ snapshotId = <<"d1", 0>>
  /\ iteration = 0
  /\ thinkingParts = <<>>
  /\ retryCount = 0
  /\ operations = <<>>
  /\ finalExplanation = DEFAULT_EXPLANATION
  /\ functionCalls = <<>>
  /\ functionResponses = <<>>
  /\ finished = FALSE
  /\ requests = 0
  /\ storeLog = <<>>
  /\ onlyToolCalls = TRUE
  /\ batchFinish = <<>>
  /\ error = NoError

Init ==
  /\ siteStyles \in {[d \in Domains |-> NoEntry]}
                      \cup {[d \in Domains |-> IF d = "d1" THEN r ELSE NoEntry] :
                              r \in LegacyRecords("d1")}
  /\ clock = MaxClock
  /\ snapshotStore = [d \in Domains |-> <<>>]
  /\ heap = NoHeap
  /\ saved = <<>>
  /\ issued = [d \in Domains |-> 0]
  /\ live = {}
  /\ mutations = 0
  /\ clears = 0
  /\ InitAgent
  /\ InitEnv
  /\ lastCall = NoCall
  /\ handled = 0

\* --------------------------------------------------------------- handlers
retained(snaps) ==
  UNION {{snaps[d][i].id : i \in 1..Len(snaps[d])} : d \in DOMAIN snaps}

\* history of saveSnapshot: what the array held when each retained id was saved
remember(old, snaps, messageId, value) ==
  [k \in retained(snaps) |-> IF k = messageId THEN value ELSE old[k]]

forget(old, snaps) == [k \in retained(snaps) |-> old[k]]

rulesOf(styles) == IF styles.kind = "styles" THEN styles.rules ELSE <<>>

\* the while condition letting one iteration too many through
LoopHeadOffByOne(iter) ==
  IF iter <= MAX_TOOL_ITERATIONS
  THEN /\ iteration' = iter + 1
       /\ requests' = requests + 1
       /\ pc' = "awaiting"
  ELSE /\ iteration' = iter
       /\ requests' = requests
       /\ pc' = "returning"

\* the while condition and iteration++ of generateStyles, then the fetch
LoopHead(iter) ==
  IF iter < MAX_TOOL_ITERATIONS
  THEN /\ iteration' = iter + 1
       /\ requests' = requests + 1
       /\ pc' = "awaiting"
  ELSE /\ iteration' = iter
       /\ requests' = requests
       /\ pc' = "returning"

\* GENERATE_STYLES up to the first provider request.  The panel has made a
\* new snapshot id for the request.
HandleGenerateStyles(domain) ==
  /\ handled' = handled + 1
  /\ pc = "idle"
  /\ issued[domain] < MaxRuns
  /\ issued' = [issued EXCEPT ![domain] = @ + 1]
  /\ IF ~apiKey \/ tab # "ready"
     THEN /\ response' =
               Failure("GENERATE_STYLES",
                       IF ~apiKey THEN API_KEY_MISSING
                       ELSE IF tab = "noContext" THEN CONTEXT_FAILED
                       ELSE NO_RECEIVER)
          /\ lastCall' = NoCall
          /\ UNCHANGED <<storeVars, snapshotStore, heap, saved, agentVars>>
     ELSE /\ \E t0 \in Reads(clock) :
               LET id == <<domain, issued[domain] + 1>>
                   g == getSiteStyles(siteStyles, domain, t0)
                   currentRules == IF g.ret = Null THEN <<>> ELSE g.ret.rules
                   a == alloc(heap, refOf("handler", domain, id), currentRules)
                   s == saveSnapshot(snapshotStore, a.heap, domain, id, a.ref)
               IN /\ siteStyles' = g.store
                  /\ clock' = t0
                  /\ snapshotStore' = s.snaps
                  /\ heap' = collect(s.heap, s.snaps, live)
                  /\ saved' = remember(saved, s.snaps, id, currentRules)
                  /\ runDomain' = domain
                  /\ snapshotId' = id
                  /\ lastCall' = NoCall
          /\ retryCount' = 0
          /\ operations' = <<>>
          /\ storeLog' = <<>>
          /\ finalExplanation' = DEFAULT_EXPLANATION
          /\ functionCalls' = <<>>
          /\ functionResponses' = <<>>
          /\ finished' = FALSE
          /\ onlyToolCalls' = TRUE
          /\ batchFinish' = <<>>
          /\ error' = NoError
          /\ LoopHead(0)
          /\ response' = NoResponse
  /\ UNCHANGED <<callerVars, envVars, chatVars, awaitVars, thinkVars, pickVars, page, messages>>

finishCalls(calls) ==
  SelectSeq(calls, LAMBDA c : c.name = "finish")

\* the provider answers with function calls
RespondToolCalls(batches, maxRounds) ==
  /\ UNCHANGED handled
  /\ pc = "awaiting"
  /\ iteration <= maxRounds
  /\ \E batch \in batches :
       /\ functionCalls' = batch
       /\ batchFinish' = finishCalls(batch)
       /\ onlyToolCalls' =
            /\ onlyToolCalls
            /\ finishCalls(batch) = <<>>
            /\ \A i \in 1..Len(batch) :
                 ~throwsTypeError(batch[i].name, batch[i].input)
  /\ functionResponses' = <<>>
  /\ finished' = FALSE
  /\ pc' = "executing"
  /\ lastCall' = NoCall
  /\ UNCHANGED <<storeVars, snapVars, callerVars, runDomain, snapshotId,
                 iteration, retryCount, operations, finalExplanation, requests,
                 storeLog, error, envVars, chatVars, awaitVars, thinkVars, pickVars, outVars>>

\* the text branch without its break: the loop goes on to the next request
RespondTextContinuing(texts) ==
  /\ UNCHANGED handled
  /\ pc = "awaiting"
  /\ \E text \in texts :
       /\ finalExplanation' = IF truthy(text) THEN text ELSE finalExplanation
       /\ lastCall' = [fn |-> "fetch", status |-> 200, text |-> text]
  /\ functionCalls' = <<>>
  /\ functionResponses' = <<>>
  /\ batchFinish' = <<>>
  /\ onlyToolCalls' = FALSE
  /\ LoopHead(iteration)
  /\ UNCHANGED <<storeVars, snapVars, callerVars, runDomain, snapshotId,
                 retryCount, operations, finished, storeLog,
                 error, envVars, chatVars, awaitVars, thinkVars, pickVars, outVars>>

\* the provider answers without a function call: text is the first text part
RespondText(texts) ==
  /\ UNCHANGED handled
  /\ pc = "awaiting"
  /\ \E text \in texts :
       /\ finalExplanation' = IF truthy(text) THEN text ELSE finalExplanation
       /\ lastCall' = [fn |-> "fetch", status |-> 200, text |-> text]
  /\ functionCalls' = <<>>
  /\ functionResponses' = <<>>
  /\ batchFinish' = <<>>
  /\ onlyToolCalls' = FALSE
  /\ pc' = "returning"
  /\ UNCHANGED <<storeVars, snapVars, callerVars, runDomain, snapshotId,
                 iteration, retryCount, operations, finished, requests, storeLog,
                 error, envVars, chatVars, awaitVars, thinkVars, pickVars, outVars>>

\* the provider answers 200 without a candidate
RespondNoCandidate ==
  /\ UNCHANGED handled
  /\ pc = "awaiting"
  /\ pc' = "thrown"
  /\ error' = NO_CANDIDATES
  /\ onlyToolCalls' = FALSE
  /\ lastCall' = [fn |-> "fetch", status |-> 200]
  /\ UNCHANGED <<storeVars, snapVars, callerVars, runDomain, snapshotId,
                 iteration, retryCount, operations, finalExplanation,
                 functionCalls, functionResponses, finished, requests, storeLog,
                 batchFinish, envVars, chatVars, awaitVars, thinkVars, pickVars, outVars>>

\* the statuses of the provider's error responses
Statuses == {401, 403, 429, 500, 503}

\* the error branch retrying a 429 like a 500
RespondErrorRetrying429 ==
  /\ UNCHANGED handled
  /\ pc = "awaiting"
  /\ \E status \in Statuses :
       /\ lastCall' = [fn |-> "fetch", status |-> status]
       /\ IF status \in {401, 403}
          THEN /\ error' = INVALID_KEY
               /\ pc' = "thrown"
               /\ UNCHANGED <<retryCount, iteration, requests>>
          ELSE IF status \in {429, 500} /\ retryCount < MAX_RETRIES
          THEN /\ retryCount' = retryCount + 1
               /\ error' = error
               /\ LoopHead(iteration - 1)
          ELSE /\ error' = IF status = 429 THEN RATE_LIMITED
                           ELSE requestFailed(status)
               /\ pc' = "thrown"
               /\ UNCHANGED <<retryCount, iteration, requests>>
  /\ onlyToolCalls' = FALSE
  /\ UNCHANGED <<storeVars, snapVars, callerVars, runDomain, snapshotId,
                 operations, finalExplanation, functionCalls, functionResponses,
                 finished, storeLog, batchFinish, envVars, chatVars, awaitVars, thinkVars, pickVars, outVars>>

\* the provider answers with an HTTP error status
RespondError ==
  /\ UNCHANGED handled
  /\ pc = "awaiting"
  /\ \E status \in Statuses :
       /\ lastCall' = [fn |-> "fetch", status |-> status]
       /\ IF status \in {401, 403}
          THEN /\ error' = INVALID_KEY
               /\ pc' = "thrown"
               /\ UNCHANGED <<retryCount, iteration, requests>>
          ELSE IF status = 429
          THEN /\ error' = RATE_LIMITED
               /\ pc' = "thrown"
               /\ UNCHANGED <<retryCount, iteration, requests>>
          ELSE IF status = 500 /\ retryCount < MAX_RETRIES
          THEN /\ retryCount' = retryCount + 1
               /\ error' = error
               /\ LoopHead(iteration - 1)
          ELSE /\ error' = requestFailed(status)
               /\ pc' = "thrown"
               /\ UNCHANGED <<retryCount, iteration, requests>>
  /\ onlyToolCalls' = FALSE
  /\ UNCHANGED <<storeVars, snapVars, callerVars, runDomain, snapshotId,
                 operations, finalExplanation, functionCalls, functionResponses,
                 finished, storeLog, batchFinish, envVars, chatVars, awaitVars, thinkVars, pickVars, outVars>>

\* the rule-store mutation a call made, for the history of the run
mutationOf(call) ==
  IF call.fn = "addRule"
  THEN <<[op |-> "add", selector |-> call.ret.id, css |-> call.rule.css,
          description |-> call.rule.description]>>
  ELSE IF call.fn = "editRule" /\ call.ret # Null
  THEN <<[op |-> "edit", ruleId |-> call.ruleId, css |-> call.updates.css,
          description |-> call.updates.description]>>
  ELSE IF call.fn = "deleteRule" /\ call.ret
  THEN <<[op |-> "delete", ruleId |-> call.ruleId]>>
  ELSE <<>>

\* the for loop over functionCalls taking the last call first
ExecuteToolLastFirst ==
  /\ UNCHANGED handled
  /\ pc = "executing"
  /\ functionCalls # <<>>
  /\ \E t0 \in Reads(clock) : \E now \in Reads(t0) : \E t1 \in Reads(now) :
       LET functionCall == functionCalls[Len(functionCalls)]
           x == executeTool(siteStyles, functionCall.name, functionCall.input,
                            runDomain, operations, t0, now, t1)
           isFinished == x.finished /\ truthy(x.explanation)
           nowFinished == finished \/ isFinished
       IN IF throwsTypeError(functionCall.name, functionCall.input)
          THEN /\ siteStyles' =
                    storeAtThrow(siteStyles, functionCall.name, runDomain, t0)
               /\ clock' = t0
               /\ error' = TYPE_ERROR
               /\ pc' = "thrown"
               /\ lastCall' = [fn |-> "selectorToId", tool |-> functionCall.name]
               /\ UNCHANGED <<operations, storeLog, functionResponses, finished,
                              finalExplanation, functionCalls, iteration,
                              requests>>
          ELSE /\ Len(x.operations) <= MaxLog
               /\ siteStyles' = x.store
               /\ clock' = t1
               /\ operations' = x.operations
               /\ storeLog' = storeLog \o mutationOf(x.call)
               /\ functionResponses' =
                    Append(functionResponses,
                           [name |-> functionCall.name, result |-> x.result])
               /\ finished' = nowFinished
               /\ finalExplanation' =
                    IF isFinished THEN x.explanation ELSE finalExplanation
               /\ functionCalls' = SubSeq(functionCalls, 1, Len(functionCalls) - 1)
               /\ lastCall' = x.call
               /\ error' = error
               /\ IF SubSeq(functionCalls, 1, Len(functionCalls) - 1) # <<>>
                  THEN /\ pc' = "executing"
                       /\ UNCHANGED <<iteration, requests>>
                  ELSE IF nowFinished
                  THEN /\ pc' = "returning"
                       /\ UNCHANGED <<iteration, requests>>
                  ELSE LoopHead(iteration)
  /\ UNCHANGED <<snapVars, callerVars, runDomain, snapshotId, retryCount,
                 onlyToolCalls, batchFinish, envVars, chatVars, awaitVars, thinkVars, pickVars, outVars>>

\* one pass of the for loop over functionCalls; after the last call, the test
\* of finished and the next turn of the while loop.  A tool that throws ends
\* generateStyles there.
ExecuteTool ==
  /\ UNCHANGED handled
  /\ pc = "executing"
  /\ functionCalls # <<>>
  /\ \E t0 \in Reads(clock) : \E now \in Reads(t0) : \E t1 \in Reads(now) :
       LET functionCall == Head(functionCalls)
           x == executeTool(siteStyles, functionCall.name, functionCall.input,
                            runDomain, operations, t0, now, t1)
           isFinished == x.finished /\ truthy(x.explanation)
           nowFinished == finished \/ isFinished
       IN IF throwsTypeError(functionCall.name, functionCall.input)
          THEN /\ siteStyles' =
                    storeAtThrow(siteStyles, functionCall.name, runDomain, t0)
               /\ clock' = t0
               /\ error' = TYPE_ERROR
               /\ pc' = "thrown"
               /\ lastCall' = [fn |-> "selectorToId", tool |-> functionCall.name]
               /\ UNCHANGED <<operations, storeLog, functionResponses, finished,
                              finalExplanation, functionCalls, iteration,
                              requests>>
          ELSE /\ Len(x.operations) <= MaxLog
               /\ siteStyles' = x.store
               /\ clock' = t1
               /\ operations' = x.operations
               /\ storeLog' = storeLog \o mutationOf(x.call)
               /\ functionResponses' =
                    Append(functionResponses,
                           [name |-> functionCall.name, result |-> x.result])
               /\ finished' = nowFinished
               /\ finalExplanation' =
                    IF isFinished THEN x.explanation ELSE finalExplanation
               /\ functionCalls' = Tail(functionCalls)
               /\ lastCall' = x.call
               /\ error' = error
               /\ IF Tail(functionCalls) # <<>>
                  THEN /\ pc' = "executing"
                       /\ UNCHANGED <<iteration, requests>>
                  ELSE IF nowFinished
                  THEN /\ pc' = "returning"
                       /\ UNCHANGED <<iteration, requests>>
                  ELSE LoopHead(iteration)
  /\ UNCHANGED <<snapVars, callerVars, runDomain, snapshotId, retryCount,
                 onlyToolCalls, batchFinish, envVars, chatVars, awaitVars, thinkVars, pickVars, outVars>>

\* the locals of generateStyles are gone when it has returned or thrown
ResetRun ==
  /\ pc' = "idle"
  /\ iteration' = 0
  /\ retryCount' = 0
  /\ operations' = <<>>
  /\ finalExplanation' = DEFAULT_EXPLANATION
  /\ functionCalls' = <<>>
  /\ functionResponses' = <<>>
  /\ finished' = FALSE
  /\ requests' = 0
  /\ storeLog' = <<>>
  /\ onlyToolCalls' = TRUE
  /\ batchFinish' = <<>>
  /\ error' = NoError
  /\ runDomain' = "d1"
  /\ thinkingParts' = <<>>
  /\ snapshotId' = <<"d1", 0>>

\* generateStyles returned: the rest of handleGenerateStyles, and the panel
\* putting the assistant's message with its snapshot id on the conversation.
\* The data of the reply is what generateStyles returned, finalExplanation
\* and operations as they are before the step.
GenerateStylesReturns ==
  /\ UNCHANGED handled
  /\ pc = "returning"
  /\ \E t0 \in Reads(clock) :
       LET g == getSiteStyles(siteStyles, runDomain, t0)
           updatedStyles == g.ret
       IN /\ siteStyles' = g.store
          /\ clock' = t0
          /\ IF updatedStyles # Null /\ ~delivers(tab)
             THEN /\ response' = Failure("GENERATE_STYLES", NO_RECEIVER)
                  /\ UNCHANGED <<page, messages>>
             ELSE /\ page' = IF updatedStyles = Null THEN page
                             ELSE stylesUpdated(compileRulesToCSS(updatedStyles),
                                                updatedStyles.enabled)
                  /\ response' = Success("GENERATE_STYLES")
                  /\ messages' = Append(messages, snapshotId)
  /\ lastCall' = NoCall
  /\ ResetRun
  /\ UNCHANGED <<snapVars, callerVars, envVars, chatVars, awaitVars, pickVars>>

\* the catch of handleGenerateStyles clearing the domain's styles
GenerateStylesThrowsClearingStyles ==
  /\ UNCHANGED handled
  /\ pc = "thrown"
  /\ response' = Failure("GENERATE_STYLES", error)
  /\ siteStyles' = clearSiteStyles(siteStyles, runDomain)
  /\ lastCall' = NoCall
  /\ ResetRun
  /\ UNCHANGED <<clock, snapVars, callerVars, envVars, chatVars, awaitVars, pickVars, page, messages>>

\* the catch of handleGenerateStyles answering like a run that returned
GenerateStylesThrowsAnsweringSuccess ==
  /\ UNCHANGED handled
  /\ pc = "thrown"
  /\ response' = Success("GENERATE_STYLES")
  /\ lastCall' = NoCall
  /\ ResetRun
  /\ UNCHANGED <<storeVars, snapVars, callerVars, envVars, chatVars, awaitVars, pickVars, page, messages>>

\* generateStyles threw: the catch of handleGenerateStyles
GenerateStylesThrows ==
  /\ UNCHANGED handled
  /\ pc = "thrown"
  /\ response' = Failure("GENERATE_STYLES", error)
  /\ lastCall' = NoCall
  /\ ResetRun
  /\ UNCHANGED <<storeVars, snapVars, callerVars, envVars, chatVars, awaitVars, pickVars, page, messages>>

\* APPLY_AND_SAVE_STYLES
HandleApplyAndSaveStyles(domain, css) ==
  /\ handled' = handled + 1
  /\ IF tab = "noUrl"
     THEN /\ response' = Failure("APPLY_AND_SAVE_STYLES", NO_TAB_URL)
          /\ lastCall' = NoCall
          /\ UNCHANGED <<storeVars, page>>
     ELSE \E t0 \in Reads(clock) : \E now \in Reads(t0) : \E t1 \in Reads(now) :
            LET rule == [NoProps EXCEPT !.selector = MANUAL,
                                        !.css = css,
                                        !.description = "Manually applied CSS",
                                        !.createdBy = "user"]
                a == addRule(siteStyles, domain, rule, t0, now, t1)
                g == getSiteStyles(a.store, domain, t1)
                compiledCSS == IF g.ret # Null THEN compileRulesToCSS(g.ret)
                               ELSE css
            IN /\ siteStyles' = g.store
               /\ clock' = t1
               /\ lastCall' = [fn |-> "addRule", domain |-> domain,
                               rule |-> rule, ret |-> a.ret]
               /\ IF delivers(tab)
                  THEN /\ page' = stylesUpdated(compiledCSS, TRUE)
                       /\ response' = Success("APPLY_AND_SAVE_STYLES")
                  ELSE /\ page' = page
                       /\ response' = Failure("APPLY_AND_SAVE_STYLES", NO_RECEIVER)
  /\ UNCHANGED <<snapVars, callerVars, agentVars, envVars, chatVars, awaitVars, thinkVars, pickVars, messages>>

\* TOGGLE_SITE_STYLES.  The content script re-injects styles.css on
\* TOGGLE_STYLES, a property the aggregate of rules does not have.
HandleToggleStyles(domain, enabled) ==
  /\ handled' = handled + 1
  /\ IF tab = "noUrl"
     THEN /\ response' = Failure("TOGGLE_SITE_STYLES", NO_TAB_URL)
          /\ UNCHANGED <<storeVars, page>>
     ELSE \E t0 \in Reads(clock) : \E t1 \in Reads(t0) :
            LET g == getSiteStyles(siteStyles, domain, t0)
            IN /\ siteStyles' = IF g.ret = Null THEN g.store
                                ELSE toggleSiteStyles(g.store, domain, enabled,
                                                      t0, t1)
               /\ clock' = t1
               /\ IF g.ret = Null
                  THEN /\ response' = Failure("TOGGLE_SITE_STYLES", NO_STYLES)
                       /\ page' = page
                  ELSE IF delivers(tab)
                  THEN /\ response' = Success("TOGGLE_SITE_STYLES")
                       /\ page' = IF enabled THEN page ELSE NoStyle
                  ELSE /\ response' = Failure("TOGGLE_SITE_STYLES", NO_RECEIVER)
                       /\ page' = page
  /\ lastCall' = NoCall
  /\ UNCHANGED <<snapVars, callerVars, agentVars, envVars, chatVars, awaitVars, thinkVars, pickVars, messages>>

\* styles.css of the content script: the css property of what getSiteStyles
\* returned, which an aggregate of rules does not have
cssProperty(styles) ==
  IF styles.kind = "legacy" THEN styles.css ELSE <<Absent>>

\* a page of the domain loads: main of the content script calls
\* loadSavedStyles on a document without injected styles
LoadSavedStyles(domain) ==
  /\ \E t0 \in Reads(clock) :
       LET g == getSiteStyles(siteStyles, domain, t0)
           styles == g.ret
       IN /\ siteStyles' = g.store
          /\ clock' = t0
          /\ page' = IF styles # Null /\ styles.enabled
                        /\ truthy(cssProperty(styles))
                     THEN cssProperty(styles)
                     ELSE NoStyle
  /\ lastCall' = [fn |-> "loadSavedStyles", domain |-> domain]
  /\ UNCHANGED <<snapVars, callerVars, agentVars, handled, envVars, chatVars,
                 awaitVars, thinkVars, pickVars, response, messages>>

\* CLEAR_SITE_STYLES
HandleClearStyles(domain) ==
  /\ handled' = handled + 1
  /\ IF tab = "noUrl"
     THEN /\ response' = Failure("CLEAR_SITE_STYLES", NO_TAB_URL)
          /\ UNCHANGED <<siteStyles, page>>
     ELSE /\ siteStyles' = clearSiteStyles(siteStyles, domain)
          /\ IF delivers(tab)
             THEN /\ page' = NoStyle
                  /\ response' = Success("CLEAR_SITE_STYLES")
             ELSE /\ page' = page
                  /\ response' = Failure("CLEAR_SITE_STYLES", NO_RECEIVER)
  /\ lastCall' = NoCall
  /\ UNCHANGED <<clock, snapVars, callerVars, agentVars, envVars, chatVars, awaitVars, thinkVars, pickVars, messages>>

\* GET_SITE_INFO
HandleGetSiteInfo(domain) ==
  /\ handled' = handled + 1
  /\ IF tab = "noUrl"
     THEN /\ response' = Failure("GET_SITE_INFO", NO_TAB_URL)
          /\ UNCHANGED storeVars
     ELSE \E t0 \in Reads(clock) :
            LET g == getSiteStyles(siteStyles, domain, t0)
            IN /\ siteStyles' = g.store
               /\ clock' = t0
               /\ response' = SuccessWith("GET_SITE_INFO",
                                          [domain |-> domain, styles |-> g.ret])
  /\ lastCall' = NoCall
  /\ UNCHANGED <<snapVars, callerVars, agentVars, envVars, chatVars, awaitVars, thinkVars, pickVars, page, messages>>

\* the snapshot ids the panel has put on messages of domain's conversation
issuedIds(domain) == {<<domain, n>> : n \in 1..issued[domain]}

\* UNDO_OPERATIONS taking a missing snapshot for an empty one
HandleUndoOperationsTakingMissingAsEmpty(domain, sid, snapshotIdsToRemove) ==
  /\ handled' = handled + 1
  /\ \E t0 \in Reads(clock) : \E t1 \in Reads(t0) : \E t2 \in Reads(t1) :
       LET snapshot == getSnapshot(snapshotStore, domain, sid)
           g == getSiteStyles(siteStyles, domain, t0)
           currentStyles == g.ret
           enabled == IF currentStyles = Null THEN TRUE ELSE currentStyles.enabled
           rules == IF snapshot = Null THEN <<>> ELSE heap[snapshot.ref]
           snaps == clearSnapshotsFrom(snapshotStore, domain, snapshotIdsToRemove)
       IN IF tab = "noUrl"
          THEN /\ response' = Failure("UNDO_OPERATIONS", NO_TAB_URL)
               /\ lastCall' = [fn |-> "tabs.get", domain |-> domain, id |-> sid]
               /\ UNCHANGED <<storeVars, snapVars, page>>
          ELSE /\ siteStyles' =
                    IF Len(rules) > 0
                    THEN saveSiteStyles(g.store, domain,
                           [rules |-> rules, enabled |-> enabled,
                            createdAt |-> IF currentStyles # Null
                                             /\ currentStyles.createdAt # 0
                                          THEN currentStyles.createdAt ELSE t1,
                            updatedAt |-> t1], t2)
                    ELSE clearSiteStyles(g.store, domain)
               /\ clock' = t2
               /\ lastCall' = [fn |-> "restore", domain |-> domain, id |-> sid,
                               rules |-> rules,
                               replaced |-> IF currentStyles = Null THEN <<>>
                                            ELSE currentStyles.rules,
                               removed |-> snapshotIdsToRemove]
               /\ UNCHANGED issued
               /\ IF delivers(tab)
                  THEN /\ page' =
                            IF Len(rules) > 0
                            THEN stylesUpdated(
                                   compileRulesToCSS([rules |-> rules]), enabled)
                            ELSE NoStyle
                       /\ snapshotStore' = snaps
                       /\ heap' = collect(heap, snaps, live)
                       /\ saved' = forget(saved, snaps)
                       /\ response' = Success("UNDO_OPERATIONS")
                  ELSE /\ response' = Failure("UNDO_OPERATIONS", NO_RECEIVER)
                       /\ UNCHANGED <<snapshotStore, heap, saved, page>>
  /\ UNCHANGED <<callerVars, agentVars, envVars, awaitVars, thinkVars, pickVars>>

\* UNDO_OPERATIONS for the tab showing domain
HandleUndoOperations(domain, sid, snapshotIdsToRemove) ==
  /\ handled' = handled + 1
  /\ \E t0 \in Reads(clock) : \E t1 \in Reads(t0) : \E t2 \in Reads(t1) :
       LET snapshot == getSnapshot(snapshotStore, domain, sid)
           g == getSiteStyles(siteStyles, domain, t0)
           currentStyles == g.ret
           enabled == IF currentStyles = Null THEN TRUE ELSE currentStyles.enabled
           rules == heap[snapshot.ref]
           snaps == clearSnapshotsFrom(snapshotStore, domain, snapshotIdsToRemove)
       IN IF tab = "noUrl"
          THEN /\ response' = Failure("UNDO_OPERATIONS", NO_TAB_URL)
               /\ lastCall' = [fn |-> "tabs.get", domain |-> domain, id |-> sid]
               /\ UNCHANGED <<storeVars, snapVars, page>>
          ELSE IF snapshot = Null
          THEN /\ response' = Failure("UNDO_OPERATIONS", SNAPSHOT_NOT_FOUND)
               /\ lastCall' = [fn |-> "getSnapshot", domain |-> domain,
                               id |-> sid, ret |-> Null]
               /\ UNCHANGED <<storeVars, snapVars, page>>
          ELSE /\ siteStyles' =
                    IF Len(rules) > 0
                    THEN saveSiteStyles(g.store, domain,
                           [rules |-> rules, enabled |-> enabled,
                            createdAt |-> IF currentStyles # Null
                                             /\ currentStyles.createdAt # 0
                                          THEN currentStyles.createdAt ELSE t1,
                            updatedAt |-> t1], t2)
                    ELSE clearSiteStyles(g.store, domain)
               /\ clock' = t2
               /\ lastCall' = [fn |-> "restore", domain |-> domain, id |-> sid,
                               rules |-> saved[sid],
                               replaced |-> IF currentStyles = Null THEN <<>>
                                            ELSE currentStyles.rules,
                               removed |-> snapshotIdsToRemove]
               /\ UNCHANGED issued
               /\ IF delivers(tab)
                  THEN /\ page' =
                            IF Len(rules) > 0
                            THEN stylesUpdated(
                                   compileRulesToCSS([rules |-> rules]), enabled)
                            ELSE NoStyle
                       /\ snapshotStore' = snaps
                       /\ heap' = collect(heap, snaps, live)
                       /\ saved' = forget(saved, snaps)
                       /\ response' = Success("UNDO_OPERATIONS")
                  ELSE /\ response' = Failure("UNDO_OPERATIONS", NO_RECEIVER)
                       /\ UNCHANGED <<snapshotStore, heap, saved, page>>
  /\ UNCHANGED <<callerVars, agentVars, envVars, awaitVars, thinkVars, pickVars>>

\* handleUndo of the panel for the assistant turn at messageIndex: the undo
\* request with the turn's snapshot id and the ids of that turn and of all
\* later ones, then the conversation cut before the turn
HandleUndo(domain, messageIndex) ==
  /\ HandleUndoOperations(domain, messages[messageIndex],
                          {messages[i] : i \in messageIndex..Len(messages)})
  /\ messages' = SubSeq(messages, 1, messageIndex - 1)
  /\ UNCHANGED chatVars

\* the undo requests of the panel: handleUndo on its conversation, and
\* handleUndo of a panel whose conversation has every id ever made for chat
Undo ==
  \/ \E i \in 1..Len(messages) : HandleUndo("d1", i)
  \/ \E domain \in Domains : \E chat \in Domains : \E n \in 1..MaxRuns :
       LET ids == {<<chat, m>> : m \in n..MaxRuns} \cap issuedIds(chat)
       IN /\ HandleUndoOperations(domain, <<chat, n>>, ids)
          /\ messages' = SelectSeq(messages, LAMBDA id : id \notin ids)
          /\ UNCHANGED chatVars

\* ------------------------------------------------------- specifications
\* Spec: the handlers of the background script working on the rule store and
\* the snapshot store of one domain, up to MaxMessages requests, the clock
\* standing still.  The provider answers the first MaxRounds requests of a
\* run with one rule-store tool call or finish, or with text; the requests of
\* the panel go on while a run waits for the provider.
StoreCalls ==
  {c \in ToolCalls :
     \/ /\ c.name \in {"add_rule", "edit_rule"}
        /\ c.input.selector = <<" ", "a">>
        /\ c.input.css # <<Absent>>
     \/ c.name = "delete_rule" /\ c.input.selector \in {<<"a">>, MANUAL}
     \/ c.name = "finish" /\ c.input.explanation = <<"e">>}

Next ==
  \/ /\ handled < MaxMessages
     /\ \/ HandleGenerateStyles("d1")
        \/ \E css \in CssBlocks : HandleApplyAndSaveStyles("d1", css)
        \/ HandleClearStyles("d1")
        \/ HandleGetSiteInfo("d1")
        \/ Undo
  \/ RespondToolCalls(Batches(StoreCalls, 1), MaxRounds)
  \/ RespondText({<<"t">>})
  \/ ExecuteTool
  \/ GenerateStylesReturns

Spec == Init /\ [][Next]_vars

\* SpecToggle: the requests of Spec that add, edit, delete and undo, and the
\* toggle switching off, on a domain whose styles are disabled when the
\* first request comes: no request clears the styles or switches them on.
DisabledRecords(d) ==
  {[kind |-> "legacy", domain |-> d, css |-> css, enabled |-> FALSE,
    createdAt |-> 0, updatedAt |-> 0] : css \in {<<" ">>, <<"p">>}}

InitToggle ==
  /\ siteStyles \in {[d \in Domains |-> IF d = "d1" THEN r ELSE NoEntry] :
                       r \in DisabledRecords("d1")}
  /\ clock = MaxClock
  /\ snapshotStore = [d \in Domains |-> <<>>]
  /\ heap = NoHeap
  /\ saved = <<>>
  /\ issued = [d \in Domains |-> 0]
  /\ live = {}
  /\ mutations = 0
  /\ clears = 0
  /\ InitAgent
  /\ InitEnv
  /\ lastCall = NoCall
  /\ handled = 0

NextToggle ==
  \/ /\ handled < MaxMessages
     /\ \/ HandleGenerateStyles("d1")
        \/ \E css \in CssBlocks : HandleApplyAndSaveStyles("d1", css)
        \/ HandleToggleStyles("d1", FALSE)
        \/ Undo
  \/ RespondToolCalls(Batches(StoreCalls, 1), MaxRounds)
  \/ RespondText({<<"t">>})
  \/ ExecuteTool
  \/ GenerateStylesReturns

SpecToggle == InitToggle /\ [][NextToggle]_vars

\* SpecPick: the element picker of one page.  Its listeners are on the
\* document from startPicker to stopPicker; the content script starts and
\* stops the picker, the user moves the mouse, clicks and presses keys.
Callbacks == {"f1", "f2"}
Elements == {"e1", "e2"}
\* what document.elementFromPoint gives: nothing, body, html or an element
PointTargets == {NoElement, "body", "documentElement"} \cup Elements
Keys == {"Escape", "a"}

\* target === document.body || target === document.documentElement
isDocumentRoot(target) == target \in {"body", "documentElement"}

\* stopPicker
stopPicker(active, target, onPick, onCancel) ==
  IF ~active
  THEN [isActive |-> active, currentTarget |-> target,
        onPickCallback |-> onPick, onCancelCallback |-> onCancel]
  ELSE [isActive |-> FALSE, currentTarget |-> NoElement,
        onPickCallback |-> NoCallback, onCancelCallback |-> NoCallback]

otherVars ==
  <<storeVars, snapVars, callerVars, agentVars, handled, envVars, chatVars,
    awaitVars, thinkVars, outVars>>

\* startPicker(onPick, onCancel)
StartPicker(onPick, onCancel) ==
  /\ IF isActive
     THEN UNCHANGED <<isActive, onPickCallback, onCancelCallback>>
     ELSE /\ isActive' = TRUE
          /\ onPickCallback' = onPick
          /\ onCancelCallback' = onCancel
  /\ lastCall' = [fn |-> "startPicker", onPick |-> onPick,
                  onCancel |-> onCancel]
  /\ UNCHANGED <<currentTarget, picked, cancelled, otherVars>>

\* stopPicker() called by the content script
StopPicker ==
  /\ LET s == stopPicker(isActive, currentTarget, onPickCallback,
                         onCancelCallback)
     IN /\ isActive' = s.isActive
        /\ currentTarget' = s.currentTarget
        /\ onPickCallback' = s.onPickCallback
        /\ onCancelCallback' = s.onCancelCallback
  /\ lastCall' = [fn |-> "stopPicker"]
  /\ UNCHANGED <<picked, cancelled, otherVars>>

\* a mousemove over target: handleMouseMove
HandleMouseMove(target) ==
  /\ currentTarget' =
       IF ~isActive THEN currentTarget
       ELSE IF target = NoElement \/ isDocumentRoot(target) THEN NoElement
       ELSE target
  /\ lastCall' = [fn |-> "handleMouseMove", target |-> target]
  /\ UNCHANGED <<isActive, onPickCallback, onCancelCallback, picked,
                 cancelled, otherVars>>

\* a click at target: handleClick
HandleClick(target) ==
  /\ LET element == IF currentTarget = NoElement THEN target
                    ELSE currentTarget
     IN /\ currentTarget' = IF isActive THEN element ELSE currentTarget
        /\ picked' =
             IF /\ isActive
                /\ element # NoElement
                /\ ~isDocumentRoot(element)
                /\ onPickCallback # NoCallback
             THEN Append(picked, [callback |-> onPickCallback,
                                  element |-> element])
             ELSE picked
  /\ Len(picked') <= MaxPicks
  /\ lastCall' = [fn |-> "handleClick", target |-> target]
  /\ UNCHANGED <<isActive, onPickCallback, onCancelCallback, cancelled,
                 otherVars>>

\* a keydown: handleKeyDown, which calls stopPicker and then reads
\* onCancelCallback
HandleKeyDown(key) ==
  /\ LET escape == isActive /\ key = "Escape"
         s == IF escape
              THEN stopPicker(isActive, currentTarget, onPickCallback,
                              onCancelCallback)
              ELSE [isActive |-> isActive, currentTarget |-> currentTarget,
                    onPickCallback |-> onPickCallback,
                    onCancelCallback |-> onCancelCallback]
     IN /\ isActive' = s.isActive
        /\ currentTarget' = s.currentTarget
        /\ onPickCallback' = s.onPickCallback
        /\ onCancelCallback' = s.onCancelCallback
        /\ cancelled' = IF escape /\ s.onCancelCallback # NoCallback
                        THEN Append(cancelled, s.onCancelCallback)
                        ELSE cancelled
  /\ lastCall' = [fn |-> "handleKeyDown", key |-> key]
  /\ UNCHANGED <<picked, otherVars>>

NextPick ==
  \/ \E onPick \in Callbacks : \E onCancel \in Callbacks :
       StartPicker(onPick, onCancel)
  \/ StopPicker
  \/ \E target \in PointTargets : HandleMouseMove(target)
  \/ \E target \in PointTargets : HandleClick(target)
  \/ \E key \in Keys : HandleKeyDown(key)

SpecPick == Init /\ [][NextPick]_vars

\* SpecPage: pages of one domain load while the panel applies css by hand
\* and switches the domain's styles off and on.
NextPage ==
  \/ /\ handled < MaxMessages
     /\ \/ \E css \in CssBlocks : HandleApplyAndSaveStyles("d1", css)
        \/ \E enabled \in BOOLEAN : HandleToggleStyles("d1", enabled)
  \/ LoadSavedStyles("d1")

SpecPage == Init /\ [][NextPage]_vars

\* SpecStore: the exported functions of the rule store called one after the
\* other with the arguments their callers pass (executeTool as 'ai', the
\* manual apply as 'user'), the clock running.
AddRule(domain, rule) ==
  /\ \E t0 \in Reads(clock) : \E now \in Reads(t0) : \E t1 \in Reads(now) :
       LET a == addRule(siteStyles, domain, rule, t0, now, t1)
       IN /\ siteStyles' = a.store
          /\ clock' = t1
          /\ lastCall' = [fn |-> "addRule", domain |-> domain, rule |-> rule,
                          ret |-> a.ret]
  /\ UNCHANGED <<snapVars, callerVars, agentVars, handled, envVars, chatVars, awaitVars, thinkVars, pickVars, outVars>>

EditRule(domain, ruleId, updates) ==
  /\ \E t0 \in Reads(clock) : \E now \in Reads(t0) : \E t1 \in Reads(now) :
       LET e == editRule(siteStyles, domain, ruleId, updates, t0, now, t1)
       IN /\ siteStyles' = e.store
          /\ clock' = t1
          /\ lastCall' = [fn |-> "editRule", domain |-> domain, ruleId |-> ruleId,
                          updates |-> updates, ret |-> e.ret]
  /\ UNCHANGED <<snapVars, callerVars, agentVars, handled, envVars, chatVars, awaitVars, thinkVars, pickVars, outVars>>

DeleteRule(domain, ruleId) ==
  /\ \E t0 \in Reads(clock) : \E t1 \in Reads(t0) :
       LET x == deleteRule(siteStyles, domain, ruleId, t0, t1)
       IN /\ siteStyles' = x.store
          /\ clock' = t1
          /\ lastCall' = [fn |-> "deleteRule", domain |-> domain, ruleId |-> ruleId,
                          ret |-> x.ret]
  /\ UNCHANGED <<snapVars, callerVars, agentVars, handled, envVars, chatVars, awaitVars, thinkVars, pickVars, outVars>>

GetSiteStyles(domain) ==
  /\ \E t0 \in Reads(clock) :
       LET g == getSiteStyles(siteStyles, domain, t0)
       IN /\ siteStyles' = g.store
          /\ clock' = t0
          /\ lastCall' = [fn |-> "getSiteStyles", domain |-> domain,
                          stored |-> siteStyles[domain], ret |-> g.ret]
  /\ UNCHANGED <<snapVars, callerVars, agentVars, handled, envVars, chatVars, awaitVars, thinkVars, pickVars, outVars>>

ToggleSiteStyles(domain, enabled) ==
  /\ \E t0 \in Reads(clock) : \E t1 \in Reads(t0) :
       /\ siteStyles' = toggleSiteStyles(siteStyles, domain, enabled, t0, t1)
       /\ clock' = t1
  /\ lastCall' = [fn |-> "toggleSiteStyles", domain |-> domain, enabled |-> enabled]
  /\ UNCHANGED <<snapVars, callerVars, agentVars, handled, envVars, chatVars, awaitVars, thinkVars, pickVars, outVars>>

ClearSiteStyles(domain) ==
  /\ siteStyles' = clearSiteStyles(siteStyles, domain)
  /\ lastCall' = [fn |-> "clearSiteStyles", domain |-> domain]
  /\ UNCHANGED <<clock, snapVars, callerVars, agentVars, handled, envVars, chatVars, awaitVars, thinkVars, pickVars,
                 outVars>>

\* what executeTool passes for add_rule, and handleApplyAndSaveStyles
RuleArgs ==
  {[NoProps EXCEPT !.selector = sel, !.css = c.css,
                   !.description = orUndefined(c.description),
                   !.createdBy = "ai"] : sel \in {<<" ", "a">>, MANUAL}, c \in Contents}
  \cup {[NoProps EXCEPT !.selector = MANUAL, !.css = css,
                        !.description = "Manually applied CSS",
                        !.createdBy = "user"] : css \in CssBlocks}

\* what executeTool passes for edit_rule
UpdateArgs ==
  {[NoProps EXCEPT !.css = c.css, !.description = orUndefined(c.description),
                   !.updatedBy = "ai"] : c \in Contents}

RuleIds == {selectorToId(sel) : sel \in Selectors}

InitStore ==
  /\ siteStyles \in {[d \in Domains |-> NoEntry]}
                      \cup {[d \in Domains |-> IF d = "d1" THEN r ELSE NoEntry] :
                              r \in LegacyRecords("d1")}
  /\ clock = 1
  /\ snapshotStore = [d \in Domains |-> <<>>]
  /\ heap = NoHeap
  /\ saved = <<>>
  /\ issued = [d \in Domains |-> 0]
  /\ live = {}
  /\ mutations = 0
  /\ clears = 0
  /\ InitAgent
  /\ InitEnv
  /\ lastCall = NoCall
  /\ handled = 0

NextStore ==
  \/ \E rule \in RuleArgs : AddRule("d1", rule)
  \/ \E ruleId \in RuleIds : \E updates \in UpdateArgs :
       EditRule("d1", ruleId, updates)
  \/ \E ruleId \in RuleIds : DeleteRule("d1", ruleId)
  \/ GetSiteStyles("d1")
  \/ \E enabled \in BOOLEAN : ToggleSiteStyles("d1", enabled)
  \/ ClearSiteStyles("d1")

SpecStore == InitStore /\ [][NextStore]_vars

\* SpecLog: addRule, editRule and deleteRule called one after the other on a
\* domain that starts without rules, the clock running; storeLog is the
\* history of the calls that changed the collection, up to MaxHistory of
\* them, started anew when the collection is empty again.
LogStoreCall(store, t, call) ==
  /\ Len(storeLog \o mutationOf(call)) <= MaxHistory
  /\ siteStyles' = store
  /\ clock' = t
  /\ lastCall' = call
  /\ storeLog' = storeLog \o mutationOf(call)
  /\ UNCHANGED <<snapVars, callerVars, pc, runDomain, snapshotId, iteration,
                 retryCount, operations, finalExplanation, functionCalls,
                 functionResponses, finished, requests, onlyToolCalls,
                 batchFinish, error, handled, envVars, chatVars, awaitVars, thinkVars, pickVars, outVars>>

LogAddRule(domain, rule) ==
  \E t0 \in Reads(clock) : \E now \in Reads(t0) : \E t1 \in Reads(now) :
    LET a == addRule(siteStyles, domain, rule, t0, now, t1)
    IN LogStoreCall(a.store, t1,
                    [fn |-> "addRule", domain |-> domain, rule |-> rule,
                     ret |-> a.ret])

LogEditRule(domain, ruleId, updates) ==
  \E t0 \in Reads(clock) : \E now \in Reads(t0) : \E t1 \in Reads(now) :
    LET e == editRule(siteStyles, domain, ruleId, updates, t0, now, t1)
    IN LogStoreCall(e.store, t1,
                    [fn |-> "editRule", domain |-> domain, ruleId |-> ruleId,
                     updates |-> updates, ret |-> e.ret])

LogDeleteRule(domain, ruleId) ==
  \E t0 \in Reads(clock) : \E t1 \in Reads(t0) :
    LET x == deleteRule(siteStyles, domain, ruleId, t0, t1)
    IN LogStoreCall(x.store, t1,
                    [fn |-> "deleteRule", domain |-> domain, ruleId |-> ruleId,
                     ret |-> x.ret])

\* the history starts anew on a domain without rules
NewHistory ==
  /\ storeLog # <<>>
  /\ rulesFound(siteStyles, "d1") = <<>>
  /\ storeLog' = <<>>
  /\ lastCall' = NoCall
  /\ UNCHANGED <<storeVars, snapVars, callerVars, pc, runDomain, snapshotId,
                 iteration, retryCount, operations, finalExplanation,
                 functionCalls, functionResponses, finished, requests,
                 onlyToolCalls, batchFinish, error, handled, envVars, chatVars, awaitVars, thinkVars, pickVars, outVars>>

\* nothing stored, or a legacy record whose css is blank
InitLog ==
  /\ InitStore
  /\ rulesFound(siteStyles, "d1") = <<>>

NextLog ==
  \/ \E rule \in RuleArgs : LogAddRule("d1", rule)
  \/ \E ruleId \in RuleIds : \E updates \in UpdateArgs :
       LogEditRule("d1", ruleId, updates)
  \/ \E ruleId \in RuleIds : LogDeleteRule("d1", ruleId)
  \/ NewHistory

SpecLog == InitLog /\ [][NextLog]_vars

\* ------------------------------------------------------------ the panel
\* a message without snapshotId
NoSnapshot == <<>>

\* ChatMessage: the n-th prompt and the reply to it
userMessage(n) ==
  [id |-> <<"user", n>>, role |-> "user", snapshotId |-> NoSnapshot]

assistantMessage(n, sid) ==
  [id |-> <<"assistant", n>>, role |-> "assistant", snapshotId |-> sid]

\* history[domain] = messages, written to chrome.storage.local
saveChatHistory(history, domain, msgs) ==
  [history EXCEPT ![domain] = msgs]

\* the effect on [messages, domain]
savedByEffect(history, domain, msgs) ==
  IF Len(msgs) > 0 THEN saveChatHistory(history, domain, msgs)
  ELSE history

\* handleUndo cutting at the undone turn
undoStartIndexAtTurn(msgs, messageIndex) == messageIndex

\* startIndex of handleUndo, counted from 1
undoStartIndex(msgs, messageIndex) ==
  IF messageIndex > 1 /\ msgs[messageIndex - 1].role = "user"
  THEN messageIndex - 1
  ELSE messageIndex

\* handleSubmit up to its await: the prompt is put on the conversation and
\* the request with a new snapshot id is sent
HandleSubmit(domain) ==
  /\ ~loading.on
  /\ issued[domain] < MaxRuns
  /\ conversation' = Append(conversation, userMessage(issued[domain] + 1))
  /\ loading' = [on |-> TRUE, issued |-> issued[domain]]
  /\ chatHistory' = savedByEffect(chatHistory, domain, conversation')
  /\ lastCall' = NoCall
  /\ UNCHANGED <<storeVars, snapVars, callerVars, agentVars, handled, envVars,
                 undoing, awaitVars, thinkVars, pickVars, outVars>>

\* the background script takes the request handleSubmit has sent
TakeSubmitted(domain) ==
  /\ loading.on
  /\ loading.issued = issued[domain]
  /\ HandleGenerateStyles(domain)

\* handleSubmit after its await: the reply, with the snapshot id when the
\* request succeeded, is put on the conversation
HandleSubmitReturns(domain) ==
  /\ loading.on
  /\ issued[domain] = loading.issued + 1
  /\ pc = "idle"
  /\ response.request = "GENERATE_STYLES"
  /\ conversation' =
       Append(conversation,
              assistantMessage(issued[domain],
                               IF response.success
                               THEN <<domain, issued[domain]>>
                               ELSE NoSnapshot))
  /\ loading' = NotLoading
  /\ chatHistory' = savedByEffect(chatHistory, domain, conversation')
  /\ lastCall' = NoCall
  /\ UNCHANGED <<storeVars, snapVars, callerVars, agentVars, handled, envVars,
                 undoing, awaitVars, thinkVars, pickVars, outVars>>

\* handleUndo up to the end of its await: the undo request with the turn's
\* snapshot id and the ids of that turn and of all later ones is sent and
\* taken by the background script
HandleUndoSends(domain, messageIndex) ==
  /\ ~loading.on
  /\ conversation[messageIndex].role = "assistant"
  /\ conversation[messageIndex].snapshotId # NoSnapshot
  /\ LET ids == {conversation[i].snapshotId :
                   i \in messageIndex..Len(conversation)} \ {NoSnapshot}
     IN /\ HandleUndoOperations(domain, conversation[messageIndex].snapshotId,
                                ids)
        /\ messages' = SelectSeq(messages, LAMBDA id : id \notin ids)
  /\ undoing' = undoing \cup {[messages |-> conversation,
                               messageIndex |-> messageIndex,
                               response |-> response']}
  /\ UNCHANGED <<conversation, chatHistory, loading>>

\* handleUndo after its await: the conversation it was called on is cut and
\* saved
HandleUndoReturns(domain, undo) ==
  /\ undo \in undoing
  /\ LET startIndex == undoStartIndex(undo.messages, undo.messageIndex)
         newMessages == SubSeq(undo.messages, 1, startIndex - 1)
     IN /\ conversation' = newMessages
        /\ chatHistory' =
             savedByEffect(saveChatHistory(chatHistory, domain, newMessages),
                           domain, newMessages)
  /\ undoing' = undoing \ {undo}
  /\ lastCall' = [fn |-> "handleUndo", messages |-> undo.messages,
                  messageIndex |-> undo.messageIndex]
  /\ UNCHANGED <<storeVars, snapVars, callerVars, agentVars, handled, envVars,
                 loading, awaitVars, thinkVars, pickVars, outVars>>

\* SpecAwait: rule-store calls of two contexts of the extension followed from
\* await to await, the clock standing still.  A call reads the siteStyles
\* object of chrome.storage.local (getSiteStyles, then getAllStyles in
\* saveSiteStyles or clearSiteStyles), changes its own copy and hands the
\* whole object to chrome.storage.local.set; the other context runs between
\* the read and the set.
AwaitCalls ==
  {[fn |-> "addRule", domain |-> d, rule |-> rule] :
     d \in Domains,
     rule \in {r \in RuleArgs : r.createdBy = "user" /\ r.css = <<"p">>}}
  \cup {[fn |-> "editRule", domain |-> d, ruleId |-> selectorToId(MANUAL),
         updates |-> u] :
          d \in Domains, u \in {x \in UpdateArgs : x.css = <<"q">>}}
  \cup {[fn |-> "deleteRule", domain |-> d, ruleId |-> selectorToId(MANUAL)] :
          d \in Domains}
  \cup {[fn |-> "toggleSiteStyles", domain |-> d, enabled |-> FALSE] :
          d \in Domains}
  \cup {[fn |-> "clearSiteStyles", domain |-> d] : d \in Domains}

\* the object the call hands to chrome.storage.local.set when it has read
\* store, and whether it gets to a set at all
written(store, call, t) ==
  IF call.fn = "addRule"
  THEN [set |-> TRUE,
        allStyles |-> addRule(store, call.domain, call.rule, t, t, t).store]
  ELSE IF call.fn = "editRule"
  THEN LET e == editRule(store, call.domain, call.ruleId, call.updates, t, t, t)
       IN [set |-> e.ret # Null, allStyles |-> e.store]
  ELSE IF call.fn = "deleteRule"
  THEN LET x == deleteRule(store, call.domain, call.ruleId, t, t)
       IN [set |-> x.ret, allStyles |-> x.store]
  ELSE IF call.fn = "toggleSiteStyles"
  THEN [set |-> store[call.domain] # NoEntry,
        allStyles |-> toggleSiteStyles(store, call.domain, call.enabled, t, t)]
  ELSE [set |-> TRUE, allStyles |-> clearSiteStyles(store, call.domain)]

\* context c calls the rule store and gets as far as the read of the object
BeginStoreCall(c, call) ==
  /\ inflight[c] = NoWrite
  /\ LET w == written(siteStyles, call, clock)
     IN inflight' =
          [inflight EXCEPT ![c] =
             IF w.set
             THEN [stage |-> "read", domain |-> call.domain,
                   allStyles |-> w.allStyles]
             ELSE NoWrite]
  /\ lastCall' = call
  /\ UNCHANGED <<storeVars, snapVars, callerVars, agentVars, handled, envVars,
                 chatVars, thinkVars, pickVars, outVars>>

\* chrome.storage.local.set({ siteStyles: allStyles }) of context c
StorageSet(c) ==
  /\ inflight[c] # NoWrite
  /\ siteStyles' = inflight[c].allStyles
  /\ inflight' = [inflight EXCEPT ![c] = NoWrite]
  /\ lastCall' = [fn |-> "storage.set", domain |-> inflight[c].domain]
  /\ UNCHANGED <<clock, snapVars, callerVars, agentVars, handled, envVars,
                 chatVars, thinkVars, pickVars, outVars>>

\* nothing stored yet
InitAwait ==
  /\ Init
  /\ siteStyles = [d \in Domains |-> NoEntry]

NextAwait ==
  \/ \E c \in Contexts : \E call \in AwaitCalls : BeginStoreCall(c, call)
  \/ \E c \in Contexts : StorageSet(c)

SpecAwait == InitAwait /\ [][NextAwait]_vars

\* SpecPure: selectorToId and migrateLegacyStyles called with every string of
\* up to MaxSelectorLen symbols and every legacy record of LegacyInputs.
Alphabet == {SPACE, TAB, COMMA, "a", "b"}

SelectorStrings == UNION {[1..n -> Alphabet] : n \in 0..MaxSelectorLen}

\* legacy records: css empty, of whitespace only, and with content
LegacyInputs ==
  {[kind |-> "legacy", domain |-> "d1", css |-> css, enabled |-> enabled,
    createdAt |-> t, updatedAt |-> t] :
     css \in {<<>>, <<" ">>, <<"\t", " ">>, <<"p">>, <<" ", "p", " ">>},
     enabled \in BOOLEAN, t \in 0..MaxClock}

SelectorToId(selector) ==
  /\ lastCall' = [fn |-> "selectorToId", selector |-> selector,
                  ret |-> selectorToId(selector)]
  /\ UNCHANGED <<storeVars, snapVars, callerVars, agentVars, handled, envVars, chatVars, awaitVars, thinkVars, pickVars,
                 outVars>>

MigrateLegacyStyles(legacy) ==
  /\ lastCall' = [fn |-> "migrateLegacyStyles", legacy |-> legacy,
                  ret |-> migrateLegacyStyles(legacy)]
  /\ UNCHANGED <<storeVars, snapVars, callerVars, agentVars, handled, envVars, chatVars, awaitVars, thinkVars, pickVars,
                 outVars>>

NextPure ==
  \/ \E selector \in SelectorStrings : SelectorToId(selector)
  \/ \E legacy \in LegacyInputs : MigrateLegacyStyles(legacy)

SpecPure == Init /\ [][NextPure]_vars

\* SpecAgent: one run of generateStyles after another on one domain, the
\* provider answering with tool calls, text or an error; no other handler
\* runs and the clock stands still.
AgentCalls ==
  {c \in ToolCalls :
     /\ c.input.selector \in {<<Absent>>, <<"a">>}
     /\ c.input.selectors \in {<<>>, <<<<"a">>>>}
     /\ c.input.css \in {<<Absent>>, <<"p">>}}

\* the calls of a response of several calls
BatchCalls ==
  {c \in AgentCalls \ MalformedCalls :
     c.name \notin {"read_rules", "unknown_tool"}}
  \cup {[name |-> "add_rule", input |-> NoInput]}

\* Responses of up to MaxBatch calls come in the first MaxRounds rounds of a
\* run, responses of one call in every round.
AgentBatches ==
  Batches(AgentCalls, 1)
    \cup (IF iteration <= MaxRounds THEN Batches(BatchCalls, MaxBatch) ELSE {})

InitAgentSpec ==
  /\ siteStyles \in {[d \in Domains |-> NoEntry]}
                      \cup {[d \in Domains |-> IF d = "d1" THEN r ELSE NoEntry] :
                              r \in LegacyRecords("d1")}
  /\ clock = MaxClock
  /\ snapshotStore = [d \in Domains |-> <<>>]
  /\ heap = NoHeap
  /\ saved = <<>>
  /\ issued = [d \in Domains |-> 0]
  /\ live = {}
  /\ mutations = 0
  /\ clears = 0
  /\ InitAgent
  /\ InitEnv
  /\ lastCall = NoCall
  /\ handled = 0

NextAgent ==
  \/ issued["d1"] < MaxAgentRuns /\ HandleGenerateStyles("d1")
  \/ RespondToolCalls(AgentBatches, MAX_TOOL_ITERATIONS)
  \/ RespondText(Texts)
  \/ RespondNoCandidate
  \/ RespondError
  \/ ExecuteTool
  \/ GenerateStylesReturns
  \/ GenerateStylesThrows

SpecAgent == InitAgentSpec /\ [][NextAgent]_vars

\* SpecThink: runs of generateStyles whose responses are sequences of parts,
\* each a thought or not, with or without text, with or without a function
\* call.
ThoughtTexts == {<<"g">>, <<"h">>}

ThinkCalls ==
  {[name |-> "add_rule",
    input |-> [NoInput EXCEPT !.selector = <<"a">>, !.css = <<"p">>]],
   [name |-> "finish", input |-> [NoInput EXCEPT !.explanation = <<"e">>]]}

ThinkParts ==
  {[thought |-> TRUE, text |-> t, functionCall |-> <<>>] :
     t \in ThoughtTexts \cup {<<>>}}
  \cup {[thought |-> FALSE, text |-> <<"t">>, functionCall |-> <<>>]}
  \cup {[thought |-> FALSE, text |-> <<>>, functionCall |-> <<c>>] :
          c \in ThinkCalls}

ThinkResponses ==
  {<<>>} \cup {<<p>> : p \in ThinkParts}
         \cup {<<p, q>> : p \in ThinkParts, q \in ThinkParts}

\* the texts the loop over parts pushes to thinkingParts
thoughtTexts(parts) ==
  LET thoughts == SelectSeq(parts, LAMBDA p : p.thought /\ truthy(p.text))
  IN [i \in 1..Len(thoughts) |-> thoughts[i].text]

\* parts.filter(p => p.functionCall), as the calls
functionCallsOf(parts) ==
  LET calling == SelectSeq(parts, LAMBDA p : p.functionCall # <<>>)
  IN [i \in 1..Len(calling) |-> calling[i].functionCall[1]]

\* parts.find(p => p.text)?.text, the empty text when there is none
textPart(parts) ==
  LET texts == SelectSeq(parts, LAMBDA p : truthy(p.text))
  IN IF texts = <<>> THEN <<>> ELSE texts[1].text

\* the provider answers 200 with a candidate of these parts: the thought
\* texts are collected, then the function calls are taken or the text is
RespondParts(responses, maxRounds) ==
  /\ UNCHANGED handled
  /\ pc = "awaiting"
  /\ \E parts \in responses :
       LET calls == functionCallsOf(parts)
           text == textPart(parts)
       IN /\ Len(thinkingParts) + Len(thoughtTexts(parts)) <= MaxThoughts
          /\ thinkingParts' = thinkingParts \o thoughtTexts(parts)
          /\ lastCall' = [fn |-> "fetch", status |-> 200, parts |-> parts]
          /\ IF calls # <<>>
             THEN /\ iteration <= maxRounds
                  /\ functionCalls' = calls
                  /\ batchFinish' = finishCalls(calls)
                  /\ onlyToolCalls' =
                       /\ onlyToolCalls
                       /\ finishCalls(calls) = <<>>
                       /\ \A i \in 1..Len(calls) :
                            ~throwsTypeError(calls[i].name, calls[i].input)
                  /\ finished' = FALSE
                  /\ pc' = "executing"
                  /\ UNCHANGED finalExplanation
             ELSE /\ finalExplanation' =
                       IF truthy(text) THEN text ELSE finalExplanation
                  /\ functionCalls' = <<>>
                  /\ batchFinish' = <<>>
                  /\ onlyToolCalls' = FALSE
                  /\ pc' = "returning"
                  /\ UNCHANGED finished
  /\ functionResponses' = <<>>
  /\ UNCHANGED <<storeVars, snapVars, callerVars, runDomain, snapshotId,
                 iteration, retryCount, operations, requests, storeLog,
                 error, envVars, chatVars, awaitVars, pickVars, outVars>>

NextThink ==
  \/ issued["d1"] < MaxThinkRuns /\ HandleGenerateStyles("d1")
  \/ RespondParts(ThinkResponses, MaxThinkRounds)
  \/ ExecuteTool
  \/ GenerateStylesReturns

SpecThink == InitAgentSpec /\ [][NextThink]_vars

\* SpecTools: executeTool called on one domain with any stored state, a
\* legacy record included, for the calls that do not throw; the operation
\* log is that of the caller, which starts an empty one for each run.
ToolsCalls ==
  {c \in AgentCalls : ~throwsTypeError(c.name, c.input)}

\* executeTool(toolName, toolInput, domain, operations)
ExecuteToolOn(domain, call) ==
  \E t0 \in Reads(clock) : \E now \in Reads(t0) : \E t1 \in Reads(now) :
    LET x == executeTool(siteStyles, call.name, call.input, domain,
                         operations, t0, now, t1)
    IN /\ Len(x.operations) <= MaxLog
       /\ siteStyles' = x.store
       /\ clock' = t1
       /\ operations' = x.operations
       /\ functionResponses' = <<[name |-> call.name, result |-> x.result]>>
       /\ lastCall' = [fn |-> "executeTool", name |-> call.name,
                       domain |-> domain, stored |-> siteStyles[domain]]
       /\ UNCHANGED <<snapVars, callerVars, pc, runDomain, snapshotId,
                      iteration, retryCount, finalExplanation, functionCalls,
                      finished, requests, storeLog, onlyToolCalls, batchFinish,
                      error, handled, envVars, chatVars, awaitVars, thinkVars, pickVars, outVars>>

\* generateStyles starting with an empty operation log
NewOperations ==
  /\ operations # <<>>
  /\ operations' = <<>>
  /\ functionResponses' = <<>>
  /\ lastCall' = NoCall
  /\ UNCHANGED <<storeVars, snapVars, callerVars, pc, runDomain, snapshotId,
                 iteration, retryCount, finalExplanation, functionCalls,
                 finished, requests, storeLog, onlyToolCalls, batchFinish,
                 error, handled, envVars, chatVars, awaitVars, thinkVars, pickVars, outVars>>

NextTools ==
  \/ \E call \in ToolsCalls : ExecuteToolOn("d1", call)
  \/ NewOperations

SpecTools == InitAgentSpec /\ [][NextTools]_vars

\* SpecSelect: the agent tools and the manual apply called on one domain
\* with selectors that differ in the order of their segments and in
\* whitespace.
SelectSelectors == {<<" ", "a">>, <<"b", ",", "a">>}

\* these and the other ways of writing them
EquivalentSelectors ==
  SelectSelectors \cup {<<"a">>, <<"a", " ">>, <<"a", ",", " ", "b">>,
                        <<"a", ",", "b">>, MANUAL, MIGRATED}

SelectCalls ==
  {[name |-> "add_rule",
    input |-> [NoInput EXCEPT !.selector = sel, !.css = <<"p">>]] :
     sel \in SelectSelectors}
  \cup {[name |-> "edit_rule",
         input |-> [NoInput EXCEPT !.selector = sel, !.css = <<"q">>]] :
          sel \in SelectSelectors}
  \cup {[name |-> "delete_rule", input |-> [NoInput EXCEPT !.selector = sel]] :
          sel \in SelectSelectors}

\* executeTool for a run that has logged nothing yet
ExecuteToolFirst(domain, call) ==
  LET x == executeTool(siteStyles, call.name, call.input, domain, <<>>,
                       clock, clock, clock)
  IN /\ siteStyles' = x.store
     /\ operations' = x.operations
     /\ functionResponses' = <<[name |-> call.name, result |-> x.result]>>
     /\ lastCall' = [fn |-> "executeTool", name |-> call.name,
                     domain |-> domain]
     /\ UNCHANGED <<clock, snapVars, callerVars, pc, runDomain, snapshotId,
                    iteration, retryCount, finalExplanation, functionCalls,
                    finished, requests, storeLog, onlyToolCalls, batchFinish,
                    error, handled, envVars, chatVars, awaitVars, thinkVars, pickVars, outVars>>

NextSelect ==
  \/ \E call \in SelectCalls : ExecuteToolFirst("d1", call)
  \/ /\ handled < MaxMessages
     /\ HandleApplyAndSaveStyles("d1", <<"p">>)

SpecSelect == InitAgentSpec /\ [][NextSelect]_vars

\* SpecEdit: add_rule, edit_rule and delete_rule called on one domain, with
\* and without a description.
EditCalls ==
  {c \in ToolCalls :
     /\ c.name \in {"add_rule", "edit_rule", "delete_rule"}
     /\ ~throwsTypeError(c.name, c.input)}

NextEdit == \E call \in EditCalls : ExecuteToolFirst("d1", call)

SpecEdit == InitAgentSpec /\ [][NextEdit]_vars

\* SpecPanel: GENERATE_STYLES and UNDO_OPERATIONS requests of the panel for
\* one tab, up to MaxMessages of them, while the API key is saved and
\* removed, the tab changes what it answers and the provider answers with a
\* tool call, text or an error.
PanelCalls ==
  {[name |-> "add_rule", input |-> NoInput],
   [name |-> "add_rule",
    input |-> [NoInput EXCEPT !.selector = <<"a">>, !.css = <<"p">>]],
   [name |-> "delete_rule", input |-> [NoInput EXCEPT !.selector = <<"a">>]],
   [name |-> "finish", input |-> [NoInput EXCEPT !.explanation = <<"e">>]]}

\* saveApiKey of the options page
SaveApiKey ==
  /\ ~apiKey
  /\ apiKey' = TRUE
  /\ lastCall' = NoCall
  /\ UNCHANGED <<storeVars, snapVars, callerVars, agentVars, handled, tab,
                 chatVars, awaitVars, thinkVars, pickVars, outVars>>

\* removeApiKey of the options page
RemoveApiKey ==
  /\ apiKey
  /\ apiKey' = FALSE
  /\ lastCall' = NoCall
  /\ UNCHANGED <<storeVars, snapVars, callerVars, agentVars, handled, tab,
                 chatVars, awaitVars, thinkVars, pickVars, outVars>>

\* the tab goes to another document: one without a content script has no
\* injected CSS
TabChanges(t) ==
  /\ t # tab
  /\ tab' = t
  /\ page' = IF delivers(t) THEN page ELSE NoStyle
  /\ lastCall' = NoCall
  /\ UNCHANGED <<storeVars, snapVars, callerVars, agentVars, handled, apiKey,
                 chatVars, awaitVars, thinkVars, pickVars, response, messages>>

InitPanel ==
  /\ siteStyles \in {[d \in Domains |-> NoEntry]}
                      \cup {[d \in Domains |-> IF d = "d1" THEN r ELSE NoEntry] :
                              r \in LegacyRecords("d1")}
  /\ clock = MaxClock
  /\ snapshotStore = [d \in Domains |-> <<>>]
  /\ heap = NoHeap
  /\ saved = <<>>
  /\ issued = [d \in Domains |-> 0]
  /\ live = {}
  /\ mutations = 0
  /\ clears = 0
  /\ InitAgent
  /\ apiKey \in BOOLEAN
  /\ tab \in TabStates
  /\ page = NoStyle
  /\ response = NoResponse
  /\ messages = <<>>
  /\ InitChat
  /\ InitPicker
  /\ lastCall = NoCall
  /\ handled = 0

NextPanel ==
  \/ /\ handled < MaxMessages
     /\ \/ HandleGenerateStyles("d1")
        \/ Undo
  \/ RespondToolCalls(Batches(PanelCalls, 1), MaxRounds)
  \/ RespondText({<<"t">>})
  \/ RespondNoCandidate
  \/ RespondError
  \/ ExecuteTool
  \/ GenerateStylesReturns
  \/ GenerateStylesThrows
  \/ SaveApiKey
  \/ RemoveApiKey
  \/ \E t \in TabStates : TabChanges(t)

SpecPanel == InitPanel /\ [][NextPanel]_vars

\* SpecChat: the panel of one tab and the background script, the API key
\* saved and the tab ready.  The provider answers the first MaxRounds
\* requests of a run with one tool call or finish, or with text or without
\* a candidate; the background script takes up to MaxMessages requests.
NextChat ==
  \/ HandleSubmit("d1")
  \/ /\ handled < MaxMessages
     /\ TakeSubmitted("d1")
  \/ HandleSubmitReturns("d1")
  \/ /\ handled < MaxMessages
     /\ \E i \in 1..Len(conversation) : HandleUndoSends("d1", i)
  \/ \E undo \in undoing : HandleUndoReturns("d1", undo)
  \/ RespondToolCalls(Batches(PanelCalls, 1), MaxRounds)
  \/ RespondText({<<"t">>})
  \/ RespondNoCandidate
  \/ ExecuteTool
  \/ GenerateStylesReturns
  \/ GenerateStylesThrows

SpecChat == Init /\ [][NextChat]_vars

\* SpecSnap and SpecCap: a caller holding a rules array calls saveSnapshot
\* and clearSnapshotsFrom, and changes its array in place afterwards.
RuleA ==
  [NoProps EXCEPT !.id = <<"a">>, !.selector = <<"a">>, !.css = <<"p">>,
                  !.createdBy = "ai", !.createdAt = 1, !.updatedAt = 1]

RuleB ==
  [NoProps EXCEPT !.id = <<"b">>, !.selector = <<"b">>, !.css = <<"p">>,
                  !.createdBy = "user", !.createdAt = 1, !.updatedAt = 1]

\* the array the caller passes to saveSnapshot
CallerArray == refOf("caller", "d1", <<"d1", 0>>)

\* what an array can become by push, assignment to an element, splice and
\* truncation
InPlaceChanges(rules) ==
  ({Append(rules, RuleB), <<>>}
     \cup {[rules EXCEPT ![i].css = <<"q">>] : i \in 1..Len(rules)}
     \cup {splice1(rules, i) : i \in 1..Len(rules)}) \ {rules}

SaveSnapshot(domain) ==
  /\ \E ref \in live :
       LET id == <<domain, issued[domain] + 1>>
           s == saveSnapshot(snapshotStore, heap, domain, id, ref)
       IN /\ snapshotStore' = s.snaps
          /\ heap' = collect(s.heap, s.snaps, live)
          /\ saved' = remember(saved, s.snaps, id, heap[ref])
          /\ issued' = [issued EXCEPT ![domain] = @ + 1]
          /\ lastCall' = [fn |-> "saveSnapshot", domain |-> domain, id |-> id]
  /\ UNCHANGED <<storeVars, callerVars, agentVars, handled, envVars, chatVars, awaitVars, thinkVars, pickVars, outVars>>

MutateInPlace ==
  /\ mutations < MaxMutations
  /\ \E ref \in live : \E changed \in InPlaceChanges(heap[ref]) :
       heap' = [heap EXCEPT ![ref] = changed]
  /\ mutations' = mutations + 1
  /\ lastCall' = NoCall
  /\ UNCHANGED <<storeVars, snapshotStore, saved, issued, live, clears,
                 agentVars, handled, envVars, chatVars, awaitVars, thinkVars, pickVars, outVars>>

ClearSnapshotsFrom(domain, messageIds) ==
  /\ LET snaps == clearSnapshotsFrom(snapshotStore, domain, messageIds)
     IN /\ snapshotStore' = snaps
        /\ heap' = collect(heap, snaps, live)
        /\ saved' = forget(saved, snaps)
  /\ clears' = clears + 1
  /\ lastCall' = [fn |-> "clearSnapshotsFrom", domain |-> domain]
  /\ UNCHANGED <<storeVars, issued, live, mutations, agentVars, handled,
                 envVars, chatVars, awaitVars, thinkVars, pickVars, outVars>>

\* the ids of a message and of all later ones, as the panel collects them
ClearFrom ==
  /\ clears < MaxClears
  /\ \E domain \in Domains : \E n \in 1..issued[domain] :
       ClearSnapshotsFrom(domain, {<<domain, m>> : m \in n..issued[domain]})

InitSnap ==
  /\ siteStyles = [d \in Domains |-> NoEntry]
  /\ clock = MaxClock
  /\ snapshotStore = [d \in Domains |-> <<>>]
  /\ heap \in {[r \in {CallerArray} |-> rules] : rules \in {<<>>, <<RuleA>>}}
  /\ saved = <<>>
  /\ issued = [d \in Domains |-> 0]
  /\ live = {CallerArray}
  /\ mutations = 0
  /\ clears = 0
  /\ InitAgent
  /\ InitEnv
  /\ lastCall = NoCall
  /\ handled = 0

\* SpecSnap: a few snapshots per domain, the array changing in between
NextSnap ==
  \/ \E domain \in Domains : issued[domain] < MaxRuns /\ SaveSnapshot(domain)
  \/ MutateInPlace
  \/ ClearFrom

SpecSnap == InitSnap /\ [][NextSnap]_vars

\* SpecCap: more snapshots of one domain than the store keeps and a few of
\* the other, of an array that stays as it is
NextCap ==
  \/ issued["d1"] < MaxSaves /\ SaveSnapshot("d1")
  \/ issued["d2"] < MaxRuns /\ SaveSnapshot("d2")
  \/ ClearFrom

SpecCap == InitSnap /\ [][NextCap]_vars

\* -------------------------------------------------------------- properties
\* C1: in every reachable state no two rules of one domain's rule collection
\* have the same id, whatever sequence of addRule, editRule, deleteRule,
\* migration on read, manual apply, clear and undo-restore led there.
C1_UniqueIds ==
  \A d \in Domains :
    LET rules == rulesOf(siteStyles[d])
    IN \A i, j \in 1..Len(rules) : rules[i].id = rules[j].id => i = j

\* an undo has just restored a collection of two rules
C1_Witness ==
  /\ lastCall.fn = "restore"
  /\ Len(rulesOf(siteStyles["d1"])) >= 2

\* C2: addRule with a selector whose normalized form is the id of a rule of
\* the domain updates that rule in place: the number of rules and the place
\* of every rule stay, css and description take the call's values, updatedBy
\* becomes the caller's createdBy, id, createdAt and createdBy are kept, the
\* updated rule is returned, and the id occurs once.
C2_UpsertInPlace ==
  [][lastCall'.fn = "addRule" =>
       \A call \in {lastCall'} :
       \A before \in {rulesFound(siteStyles, call.domain)} :
       \A after \in {rulesOf(siteStyles'[call.domain])} :
       \A i \in {findIndex(before, selectorToId(call.rule.selector))} :
         i # 0
          => /\ Len(after) = Len(before)
             /\ \A j \in 1..Len(before) : j # i => after[j] = before[j]
             /\ after[i].id = before[i].id
             /\ after[i].createdAt = before[i].createdAt
             /\ after[i].createdBy = before[i].createdBy
             /\ after[i].css = call.rule.css
             /\ after[i].description = jsonRule(call.rule).description
             /\ after[i].updatedBy = call.rule.createdBy
             /\ jsonRule(call.ret) = after[i]
             /\ Cardinality({j \in 1..Len(after) : after[j].id = before[i].id}) = 1
    ]_vars

\* 'ai' has just upserted the second of two rules, one that 'user' created,
\* with a selector that is not the rule's id, and changed its css
C2_Witness ==
  /\ lastCall.fn = "addRule"
  /\ lastCall.rule.createdBy = "ai"
  /\ lastCall.ret.createdBy = "user"
  /\ lastCall.ret.updatedBy = "ai"
  /\ lastCall.ret.css = <<"q">>
  /\ Len(rulesOf(siteStyles["d1"])) = 2
  /\ rulesOf(siteStyles["d1"])[2] = jsonRule(lastCall.ret)

\* C3: every addRule that upserts an existing rule leaves the rule's
\* updatedAt strictly greater than it was before the call, for every reading
\* of the clock, two calls in the same millisecond included.
C3_UpdatedAtStrictlyGreater ==
  [][lastCall'.fn = "addRule" =>
       \A call \in {lastCall'} :
       \A before \in {rulesFound(siteStyles, call.domain)} :
       \A after \in {rulesOf(siteStyles'[call.domain])} :
       \A i \in {findIndex(before, selectorToId(call.rule.selector))} :
         i # 0 => after[i].updatedAt > before[i].updatedAt
    ]_vars

\* C4: while the provider has answered every request of the run with tool
\* calls, none of them finish, the run sends at most MAX_TOOL_ITERATIONS
\* requests, and it returns only after exactly MAX_TOOL_ITERATIONS of them,
\* with the default explanation and the operations accumulated so far.
C4_IterationCap ==
  (pc # "idle" /\ onlyToolCalls) =>
    /\ requests <= MAX_TOOL_ITERATIONS
    /\ pc \in {"awaiting", "executing", "returning"}
    /\ pc = "returning" =>
         /\ requests = MAX_TOOL_ITERATIONS
         /\ iteration = MAX_TOOL_ITERATIONS
         /\ finalExplanation = DEFAULT_EXPLANATION
         /\ operations = storeLog

\* a run of tool calls only has returned, with operations in its log
C4_Witness ==
  /\ pc = "returning"
  /\ onlyToolCalls
  /\ requests = MAX_TOOL_ITERATIONS
  /\ Len(operations) = MaxLog

\* C5: when the last call of a response that holds a finish call has been
\* executed, every call of the response has been executed in order, no
\* further request is sent and the run returns the explanation of a finish
\* call of the response, whatever that explanation is.
C5_FinishEndsRun ==
  [][(pc = "executing" /\ Len(functionCalls) = 1 /\ batchFinish # <<>>)
       => /\ pc' = "returning"
          /\ requests' = requests
          /\ functionCalls' = <<>>
          /\ \E i \in 1..Len(batchFinish) :
               finalExplanation' = batchFinish[i].input.explanation
    ]_vars

\* C6: the operations a completed run returns are exactly the add_rule,
\* edit_rule and delete_rule calls that succeeded against the store, in the
\* order of execution; no other call has an entry.
C6_OperationsAreSuccessfulMutations ==
  pc = "returning" => operations = storeLog

\* a run returns an add and a delete after its last call, an edit_rule, has
\* found no rule
C6_Witness ==
  /\ pc = "returning"
  /\ Len(operations) = 2
  /\ operations[1].op = "add"
  /\ operations[2].op = "delete"
  /\ lastCall.fn = "editRule"
  /\ lastCall.ret = Null
  /\ functionResponses[Len(functionResponses)].result[1] = "Error:"

\* C7: an edit_rule or delete_rule call whose selector normalizes to an id
\* the domain does not hold gets a result beginning with 'Error:', leaves the
\* store and the operation log as they were and does not end the run: after
\* the last call of the response the next request is sent, unless the
\* response held a finish call or the iteration cap is reached.
C7_NotFoundGoesOn ==
  [][(/\ pc = "executing"
      /\ Head(functionCalls).name \in {"edit_rule", "delete_rule"}
      /\ Head(functionCalls).input.selector # <<Absent>>
      /\ findIndex(rulesFound(siteStyles, runDomain),
                   selectorToId(Head(functionCalls).input.selector)) = 0)
       => \A responses \in {functionResponses'} :
            /\ Len(responses) = Len(functionResponses) + 1
            /\ responses[Len(responses)].result[1] = "Error:"
            /\ siteStyles' = siteStyles
            /\ operations' = operations
            /\ pc' \in {"executing", "awaiting", "returning"}
            /\ pc' = "executing" <=> Len(functionCalls) > 1
            /\ pc' = "returning" =>
                 batchFinish # <<>> \/ iteration = MAX_TOOL_ITERATIONS
            /\ (/\ Len(functionCalls) = 1
                /\ batchFinish = <<>>
                /\ iteration < MAX_TOOL_ITERATIONS)
                 => pc' = "awaiting" /\ requests' = requests + 1
    ]_vars

\* the next request is out after a response whose last call found no rule
C7_Witness ==
  /\ pc = "awaiting"
  /\ requests >= 2
  /\ functionResponses # <<>>
  /\ functionResponses[Len(functionResponses)].name = "delete_rule"
  /\ functionResponses[Len(functionResponses)].result[1] = "Error:"

\* C8: an undo with the snapshot id of a run, while the snapshot is retained,
\* leaves the domain's rule sequence equal to the rules R0 the run started on
\* (no aggregate counting as the empty sequence), whatever the run, later
\* runs and other requests did to the rules in between.
C8_UndoRestoresR0 ==
  lastCall.fn = "restore" =>
    rulesOf(siteStyles[lastCall.domain]) = lastCall.rules

\* an undo has put back a rule set that is not empty in place of another
C8_Witness ==
  /\ lastCall.fn = "restore"
  /\ lastCall.rules # <<>>
  /\ lastCall.replaced # lastCall.rules
  /\ rulesOf(siteStyles["d1"]) = lastCall.rules

\* C9: what getSnapshot(domain, id) returns is what the array held when
\* saveSnapshot(domain, id, rules) was called, whatever was done to the array
\* afterwards.
C9_SnapshotIsolation ==
  \A d \in Domains : \A id \in DOMAIN saved :
    getSnapshot(snapshotStore, d, id) # Null
      => heap[getSnapshot(snapshotStore, d, id).ref] = saved[id]

\* the caller's array has changed since a snapshot of it was saved
C9_Witness ==
  /\ mutations > 0
  /\ \E ref \in live : \E id \in DOMAIN saved :
       /\ saved[id] # <<>>
       /\ heap[ref] # saved[id]
       /\ getSnapshot(snapshotStore, id[1], id) # Null

\* C10: in every reachable state the snapshot store holds at most
\* MAX_SNAPSHOTS_PER_DOMAIN (20) snapshots for each domain.
C10_AtMostTwentySnapshots ==
  \A d \in Domains : Len(snapshotStore[d]) <= MAX_SNAPSHOTS_PER_DOMAIN

\* more snapshots than the cap have been saved for a domain that holds 20
C10_Witness ==
  /\ issued["d1"] > MAX_SNAPSHOTS_PER_DOMAIN
  /\ Len(snapshotStore["d1"]) = MAX_SNAPSHOTS_PER_DOMAIN

\* C11: while no snapshot has been invalidated, the snapshots restorable for
\* a domain are exactly the MAX_SNAPSHOTS_PER_DOMAIN (20) saved last for that
\* domain: getSnapshot answers null for every id saved earlier, and the saves
\* of one domain evict nothing of another.
C11_EvictionOldestFirst ==
  clears = 0 =>
    \A d \in Domains : \A n \in 1..issued[d] :
      (getSnapshot(snapshotStore, d, <<d, n>>) # Null)
        <=> (n > issued[d] - MAX_SNAPSHOTS_PER_DOMAIN)

\* two snapshots of d1 are evicted while d2 still holds its first one
C11_Witness ==
  /\ clears = 0
  /\ issued["d1"] = MAX_SNAPSHOTS_PER_DOMAIN + 2
  /\ issued["d2"] = MaxRuns
  /\ getSnapshot(snapshotStore, "d1", <<"d1", 2>>) = Null
  /\ getSnapshot(snapshotStore, "d1", <<"d1", 3>>) # Null
  /\ getSnapshot(snapshotStore, "d2", <<"d2", 1>>) # Null

\* ------------------------------------------------------------------ C12
\* C12: an undo request that gets past the tab lookup and names a snapshot
\* id the domain's snapshot list does not hold (never saved, invalidated by
\* an earlier undo, or saved for another domain) is answered with
\* {success: false, error: 'Snapshot not found - undo unavailable'}, and the
\* stored styles (a legacy record included), the CSS of the page and the
\* snapshot store are what they were.
C12_MissingSnapshotFailsCleanly ==
  [][(/\ lastCall'.fn \in {"getSnapshot", "restore"}
      /\ keyIndex(snapshotStore[lastCall'.domain], lastCall'.id) = 0)
       => /\ response' = Failure("UNDO_OPERATIONS", SNAPSHOT_NOT_FOUND)
          /\ siteStyles' = siteStyles
          /\ page' = page
          /\ snapshotStore' = snapshotStore
          /\ heap' = heap]_vars

\* an undo of a turn undone before failed while styles are stored and shown
\* and another snapshot is kept
C12_Witness ==
  /\ lastCall.fn = "getSnapshot"
  /\ response = Failure("UNDO_OPERATIONS", SNAPSHOT_NOT_FOUND)
  /\ lastCall.id \in issuedIds(lastCall.domain)
  /\ snapshotStore[lastCall.domain] # <<>>
  /\ siteStyles[lastCall.domain].kind = "styles"
  /\ page # NoStyle

\* ------------------------------------------------------------------ C13
\* C13: when the undo of the turn at position T of the conversation
\* succeeds, the snapshots of that turn and of every later turn are not found
\* any more, and what getSnapshot returns for each earlier turn is what it
\* returned before.
C13_UndoInvalidatesFromTurnOn ==
  [][(/\ lastCall'.fn = "restore"
      /\ response'.success
      /\ \E i \in 1..Len(messages) : messages[i] = lastCall'.id)
       => LET d == lastCall'.domain
              T == CHOOSE i \in 1..Len(messages) : messages[i] = lastCall'.id
          IN /\ \A j \in T..Len(messages) :
                  getSnapshot(snapshotStore', d, messages[j]) = Null
             /\ \A j \in 1..(T - 1) :
                  getSnapshot(snapshotStore', d, messages[j])
                    = getSnapshot(snapshotStore, d, messages[j])]_vars

\* the second of two turns was undone and the first can still be undone
C13_Witness ==
  /\ lastCall.fn = "restore"
  /\ response = Success("UNDO_OPERATIONS")
  /\ lastCall.id = <<"d1", 2>>
  /\ messages = << <<"d1", 1>> >>
  /\ getSnapshot(snapshotStore, "d1", <<"d1", 1>>) # Null
  /\ getSnapshot(snapshotStore, "d1", <<"d1", 2>>) = Null

\* ------------------------------------------------------------------ C14
\* C14: a provider response with a status from 500 to 599 is retried while
\* fewer than MAX_RETRIES retries were made in the run, the retry sending the
\* next request without counting an iteration; with the retries used up it
\* aborts the run; a run sends at most MAX_TOOL_ITERATIONS + MAX_RETRIES
\* requests.
C14_ServerErrorsRetried ==
  [][/\ (/\ pc = "awaiting"
         /\ lastCall'.fn = "fetch"
         /\ lastCall'.status \in 500..599)
          => IF retryCount < MAX_RETRIES
             THEN /\ pc' = "awaiting"
                  /\ retryCount' = retryCount + 1
                  /\ iteration' = iteration
                  /\ requests' = requests + 1
             ELSE /\ pc' = "thrown"
                  /\ requests' = requests
     /\ requests' <= MAX_TOOL_ITERATIONS + MAX_RETRIES
    ]_vars

\* ------------------------------------------------------------------ C15
\* C15: a provider response with status 401, 403 or 429, at any iteration,
\* makes generateStyles throw at once: no retry is counted, no request is
\* sent, no call is executed, the store and the operation log stay as they
\* are; the handler catches the error and answers the request with it.
C15_CredentialAndRateErrorsAbort ==
  [][/\ (/\ pc = "awaiting"
         /\ lastCall'.fn = "fetch"
         /\ lastCall'.status \in {401, 403, 429})
          => /\ pc' = "thrown"
             /\ error' = IF lastCall'.status = 429 THEN RATE_LIMITED
                         ELSE INVALID_KEY
             /\ requests' = requests
             /\ retryCount' = retryCount
             /\ functionCalls' = functionCalls
             /\ operations' = operations
             /\ siteStyles' = siteStyles
     /\ pc = "thrown"
          => /\ pc' = "idle"
             /\ requests' = 0
             /\ response' = Failure("GENERATE_STYLES", error)
    ]_vars

\* a 429 has ended a run in a later iteration, after a rule was written
C15_Witness ==
  /\ pc = "thrown"
  /\ lastCall.fn = "fetch"
  /\ lastCall.status = 429
  /\ error = RATE_LIMITED
  /\ iteration >= 2
  /\ operations # <<>>

\* ------------------------------------------------------------------ C16
\* id, css and description of each rule of a collection, in order
contents(rules) ==
  [i \in 1..Len(rules) |->
     [id |-> rules[i].id, css |-> rules[i].css,
      description |-> rules[i].description]]

\* what one successful add, edit or delete makes of a collection
applyOperation(cs, m) ==
  LET id == IF m.op = "add" THEN m.selector ELSE m.ruleId
      found == {i \in 1..Len(cs) : cs[i].id = id}
      css == IF m.css = <<Undefined>> THEN <<Absent>> ELSE m.css
      description == IF m.description = Undefined THEN Absent
                     ELSE m.description
  IN IF m.op = "delete"
     THEN SelectSeq(cs, LAMBDA c : c.id # id)
     ELSE IF found = {}
     THEN Append(cs, [id |-> id, css |-> css, description |-> description])
     ELSE [i \in 1..Len(cs) |->
             IF i \in found
             THEN [id |-> id, css |-> css, description |-> description]
             ELSE cs[i]]

RECURSIVE applyOperations(_, _)
applyOperations(cs, log) ==
  IF log = <<>> THEN cs
  ELSE applyOperations(applyOperation(cs, Head(log)), Tail(log))

\* C16: when a provider error has aborted a run, the domain's rules are, in
\* id, css and description, what applying the successful add, edit and delete
\* calls of the run in order makes of the rules the run started on, and the
\* handler's catch leaves the stored styles as they are.
C16_AbortKeepsCompletedMutations ==
  [][(pc = "thrown" /\ error # TYPE_ERROR)
       => /\ contents(rulesOf(siteStyles[runDomain]))
               = applyOperations(contents(saved[snapshotId]), storeLog)
          /\ siteStyles' = siteStyles
    ]_vars

\* a provider error has aborted a run that had added a rule and deleted it in
\* earlier iterations, on a domain that started with a rule
C16_Witness ==
  /\ pc = "thrown"
  /\ error = requestFailed(503)
  /\ Len(storeLog) = 2
  /\ storeLog[1].op = "add"
  /\ storeLog[2].op = "delete"
  /\ saved[snapshotId] # <<>>
  /\ iteration = 3

\* ------------------------------------------------------------------ C17
\* C17: executing a call that lacks a required argument (add_rule, edit_rule
\* or delete_rule without selector, read_rules without selectors, finish
\* without explanation, a call without args) never makes generateStyles
\* throw: the loop goes on or the run returns.
C17_MalformedCallsNeverThrow ==
  [][(pc = "executing" /\ Head(functionCalls) \in MalformedCalls)
       => pc' \in {"executing", "awaiting", "returning"}]_vars

\* ------------------------------------------------------------------ C18
\* C18: a provider response without a function call ends the loop at that
\* iteration: no request is sent, nothing is executed or written, and the run
\* returns the response's first text, or DEFAULT_EXPLANATION when it has no
\* text; the handler then answers the request.
C18_TextEndsRun ==
  [][/\ (/\ pc = "awaiting"
         /\ lastCall'.fn = "fetch"
         /\ lastCall'.status = 200
         /\ "text" \in DOMAIN lastCall')
          => /\ pc' = "returning"
             /\ requests' = requests
             /\ iteration' = iteration
             /\ operations' = operations
             /\ siteStyles' = siteStyles
             /\ finalExplanation' = IF truthy(lastCall'.text)
                                    THEN lastCall'.text
                                    ELSE DEFAULT_EXPLANATION
     /\ pc = "returning" => pc' = "idle" /\ requests' = 0
    ]_vars

\* a response without text has ended a run in its second iteration, after a
\* rule was written
C18_Witness ==
  /\ pc = "returning"
  /\ lastCall.fn = "fetch"
  /\ lastCall.status = 200
  /\ "text" \in DOMAIN lastCall
  /\ ~truthy(lastCall.text)
  /\ finalExplanation = DEFAULT_EXPLANATION
  /\ iteration = 2
  /\ operations # <<>>

\* ------------------------------------------------------------------ C19
\* the messages of the failures of GENERATE_STYLES and UNDO_OPERATIONS
FailureMessages ==
  {API_KEY_MISSING, CONTEXT_FAILED, NO_TAB_URL, SNAPSHOT_NOT_FOUND, INVALID_KEY,
   RATE_LIMITED, NO_CANDIDATES, NO_RECEIVER, TYPE_ERROR}
    \cup {requestFailed(status) : status \in Statuses}

\* C19: a GENERATE_STYLES request without an API key, or for a tab whose page
\* context cannot be had, starts no run and is answered {success: false,
\* error}; an error thrown in a run (provider error, tool error) is caught by
\* the handler and answered as {success: false, error} with its message; an
\* UNDO_OPERATIONS request that fails (no tab URL, missing snapshot, tab not
\* reachable) is answered {success: false, error}; every reply is a success
\* or carries the message of its failure.
C19_FailuresAreFlattened ==
  [][/\ pc = "thrown" => error \in FailureMessages
     /\ (pc = "thrown" /\ pc' # pc)
          => /\ pc' = "idle"
             /\ response' = Failure("GENERATE_STYLES", error)
     /\ (pc = "idle" /\ issued' # issued)
          => IF ~apiKey
             THEN pc' = "idle"
                  /\ response' = Failure("GENERATE_STYLES", API_KEY_MISSING)
             ELSE IF tab = "noContext"
             THEN pc' = "idle"
                  /\ response' = Failure("GENERATE_STYLES", CONTEXT_FAILED)
             ELSE IF tab # "ready"
             THEN pc' = "idle"
                  /\ response' = Failure("GENERATE_STYLES", NO_RECEIVER)
             ELSE pc' = "awaiting" /\ response' = NoResponse
     /\ (handled' # handled /\ issued' = issued)
          => /\ response'.request = "UNDO_OPERATIONS"
             /\ tab = "noUrl"
                  => response' = Failure("UNDO_OPERATIONS", NO_TAB_URL)
             /\ lastCall'.fn = "getSnapshot"
                  => response' = Failure("UNDO_OPERATIONS", SNAPSHOT_NOT_FOUND)
             /\ (lastCall'.fn = "restore" /\ ~delivers(tab))
                  => response' = Failure("UNDO_OPERATIONS", NO_RECEIVER)
     /\ response' # NoResponse
          => \/ response' = Success(response'.request)
             \/ \E message \in FailureMessages :
                  response' = Failure(response'.request, message)
    ]_vars

\* the handler has answered a request with the TypeError a tool threw after
\* an earlier call of the run had written a rule
C19_Witness ==
  /\ pc = "idle"
  /\ response = Failure("GENERATE_STYLES", TYPE_ERROR)
  /\ rulesOf(siteStyles["d1"]) # <<>>
  /\ messages = <<>>
  /\ handled = 1

\* ------------------------------------------------------------------ C20
\* C20: a list_rules or read_rules call leaves what is stored for every
\* domain as it is, a legacy record included, and the operation log as it
\* is.
C20_ReadToolsChangeNothing ==
  [][(lastCall'.fn = "executeTool"
        /\ lastCall'.name \in {"list_rules", "read_rules"})
       => /\ siteStyles' = siteStyles
          /\ operations' = operations
    ]_vars

\* C20 as it holds: a list_rules or read_rules call leaves the operation log
\* as it is and the rules a read finds for the domain as they are; what is
\* stored stays as it is unless the domain holds a legacy record, which the
\* call may replace by the record migrated to the rule format, written back.
C20_ReadToolsOnlyMigrate ==
  [][(lastCall'.fn = "executeTool"
        /\ lastCall'.name \in {"list_rules", "read_rules"})
       => \A d \in {lastCall'.domain} :
            /\ operations' = operations
            /\ rulesFound(siteStyles', d) = rulesFound(siteStyles, d)
            /\ \A other \in Domains \ {d} : siteStyles'[other] = siteStyles[other]
            /\ siteStyles[d].kind # "legacy" => siteStyles' = siteStyles
            /\ siteStyles[d].kind = "legacy"
                 => \/ siteStyles' = siteStyles
                    \/ \E t \in 0..MaxClock :
                         siteStyles' =
                           saveSiteStyles(siteStyles, d,
                                          migrateLegacyStyles(siteStyles[d]), t)
    ]_vars

\* list_rules was called on a legacy record, which is now stored in the rule
\* format, with an empty operation log
C20_Witness ==
  /\ lastCall.fn = "executeTool"
  /\ lastCall.name = "list_rules"
  /\ lastCall.stored.kind = "legacy"
  /\ siteStyles["d1"].kind = "styles"
  /\ siteStyles["d1"].rules # <<>>
  /\ operations = <<>>

\* ------------------------------------------------------------------ C22
\* C22: selectorToId applied to what selectorToId returned returns it again,
\* for every selector string, with empty segments, leading and trailing
\* commas and runs of whitespace.
C22_NormalizationIdempotent ==
  lastCall.fn = "selectorToId" => selectorToId(lastCall.ret) = lastCall.ret

\* a selector with an empty segment and a run of whitespace was normalized to
\* another string
C22_Witness ==
  /\ lastCall.fn = "selectorToId"
  /\ lastCall.selector = <<"a", TAB, SPACE, COMMA>>
  /\ lastCall.ret = <<COMMA, SPACE, "a">>

\* ------------------------------------------------------------------ C23
\* the words of a segment: its maximal runs of characters that are not
\* whitespace
RECURSIVE words(_)
words(s) ==
  IF s = <<>> THEN <<>>
  ELSE IF Head(s) \in Whitespace THEN words(Tail(s))
  ELSE LET ends == {i \in 1..Len(s) : s[i] \in Whitespace}
           k == IF ends = {} THEN Len(s) + 1
                ELSE CHOOSE i \in ends : \A j \in ends : i <= j
       IN <<SubSeq(s, 1, k - 1)>> \o words(SubSeq(s, k, Len(s)))

\* the comma-separated segments of a selector list, each as its words
segmentsOf(s) == [i \in 1..Len(split(s)) |-> words(split(s)[i])]

\* the same segments, in any order and with any whitespace between the words
\* and around the segments
sameSegments(s1, s2) ==
  LET a == segmentsOf(s1)
      b == segmentsOf(s2)
  IN /\ Len(a) = Len(b)
     /\ \A i \in 1..Len(a) :
          Cardinality({j \in 1..Len(a) : a[j] = a[i]})
            = Cardinality({j \in 1..Len(b) : b[j] = a[i]})

\* C23: selectorToId returns the same id for any two selector lists with the
\* same segments, whatever the order of the segments and the whitespace
\* around them and between their words.
C23_OrderAndWhitespaceInsensitive ==
  lastCall.fn = "selectorToId" =>
    \A other \in SelectorStrings :
      sameSegments(lastCall.selector, other)
        => selectorToId(other) = lastCall.ret

\* a list of two segments in descending order, with whitespace, got the id of
\* the list in ascending order
C23_Witness ==
  /\ lastCall.fn = "selectorToId"
  /\ lastCall.selector = <<SPACE, "b", COMMA, "a">>
  /\ lastCall.ret = <<"a", COMMA, SPACE, "b">>
  /\ sameSegments(lastCall.selector, <<"a", COMMA, "b">>)

\* ------------------------------------------------------------------ C27
\* C27: migrateLegacyStyles returns, for every legacy record, an aggregate
\* with exactly one rule whose css is the legacy css, also when that css is
\* empty or whitespace only, and with the legacy enabled flag.
C27_MigrationMakesOneRule ==
  lastCall.fn = "migrateLegacyStyles" =>
    /\ Len(lastCall.ret.rules) = 1
    /\ lastCall.ret.rules[1].css = lastCall.legacy.css
    /\ lastCall.ret.enabled = lastCall.legacy.enabled

\* C27 as it holds: migrateLegacyStyles keeps the legacy enabled flag and
\* returns exactly one rule, with the whole legacy css as its css, when the
\* legacy css has a character that is not whitespace; it returns no rule when
\* the legacy css is empty or whitespace only.
C27_MigrationMakesOneRuleUnlessBlank ==
  lastCall.fn = "migrateLegacyStyles" =>
    /\ lastCall.ret.enabled = lastCall.legacy.enabled
    /\ IF \E i \in 1..Len(lastCall.legacy.css) :
            lastCall.legacy.css[i] \notin Whitespace
       THEN /\ Len(lastCall.ret.rules) = 1
            /\ lastCall.ret.rules[1].css = lastCall.legacy.css
       ELSE lastCall.ret.rules = <<>>

\* a legacy record with css of whitespace only was migrated to no rule
C27_Witness ==
  /\ lastCall.fn = "migrateLegacyStyles"
  /\ lastCall.legacy.css = <<TAB, SPACE>>
  /\ lastCall.legacy.enabled
  /\ lastCall.ret.rules = <<>>
  /\ lastCall.ret.enabled

\* ------------------------------------------------------------------ C21
\* C21: editRule and deleteRule with an id the domain's collection does not
\* hold (the domain may have nothing stored) return null and false and leave
\* everything stored as it is: the aggregate with its updatedAt, and no
\* aggregate where there was none.
C21_NotFoundChangesNothing ==
  [][(/\ lastCall'.fn \in {"editRule", "deleteRule"}
      /\ findIndex(rulesFound(siteStyles, lastCall'.domain),
                   lastCall'.ruleId) = 0)
       => /\ lastCall'.ret = IF lastCall'.fn = "editRule" THEN Null ELSE FALSE
          /\ siteStyles' = siteStyles
    ]_vars

\* C21 as it holds: editRule and deleteRule with an id the domain's
\* collection does not hold return null and false; they leave an aggregate in
\* the rule format as it is, updatedAt included, and a domain with nothing
\* stored with nothing stored; a legacy record they find is replaced by the
\* record migrated to the rule format, with the same rules as a read returns
\* before and after.
C21_NotFoundOnlyMigrates ==
  [][(/\ lastCall'.fn \in {"editRule", "deleteRule"}
      /\ findIndex(rulesFound(siteStyles, lastCall'.domain),
                   lastCall'.ruleId) = 0)
       => \A d \in {lastCall'.domain} :
            /\ lastCall'.ret = IF lastCall'.fn = "editRule" THEN Null ELSE FALSE
            /\ rulesFound(siteStyles', d) = rulesFound(siteStyles, d)
            /\ siteStyles[d].kind # "legacy" => siteStyles' = siteStyles
            /\ siteStyles[d].kind = "legacy"
                 => \E t \in 0..MaxClock :
                      siteStyles' =
                        saveSiteStyles(siteStyles, d,
                                       migrateLegacyStyles(siteStyles[d]), t)
    ]_vars

\* deleteRule has found no rule of its id in an aggregate that holds a rule
\* and was last written before the call
C21_Witness ==
  /\ lastCall.fn = "deleteRule"
  /\ lastCall.ret = FALSE
  /\ siteStyles[lastCall.domain].kind = "styles"
  /\ siteStyles[lastCall.domain].rules # <<>>
  /\ siteStyles[lastCall.domain].updatedAt < clock

\* ------------------------------------------------------------------ C26
\* C26: two getSiteStyles calls in a row on a domain that holds a legacy
\* record return equal values, rules and the aggregate's domain, enabled,
\* createdAt and updatedAt, and the second call does not write.
C26_LegacyReadTwiceIdentical ==
  [][(/\ lastCall.fn = "getSiteStyles"
      /\ lastCall'.fn = "getSiteStyles"
      /\ lastCall'.domain = lastCall.domain
      /\ lastCall.stored.kind = "legacy"
      /\ lastCall'.stored.kind = "styles")
       => /\ lastCall'.ret = lastCall.ret
          /\ siteStyles' = siteStyles
    ]_vars

\* ------------------------------------------------------------------ C24
\* C24: when, on a domain that had no rules, the calls that changed the
\* collection are an addRule, an editRule of the id of the added rule and a
\* deleteRule of that id, the domain's aggregate holds no rules and
\* compileRulesToCSS of it is the empty string.
C24_AddEditDeleteLeavesEmpty ==
  (/\ Len(storeLog) = 3
   /\ storeLog[1].op = "add"
   /\ storeLog[2].op = "edit"
   /\ storeLog[3].op = "delete"
   /\ storeLog[2].ruleId = storeLog[1].selector
   /\ storeLog[3].ruleId = storeLog[1].selector)
    => /\ siteStyles["d1"].kind = "styles"
       /\ siteStyles["d1"].rules = <<>>
       /\ compileRulesToCSS(siteStyles["d1"]) = <<>>

\* a rule was added with one css, edited to another and deleted
C24_Witness ==
  /\ Len(storeLog) = 3
  /\ storeLog[1].op = "add"
  /\ storeLog[1].css = <<"p">>
  /\ storeLog[2].op = "edit"
  /\ storeLog[2].css = <<"q">>
  /\ storeLog[3].op = "delete"
  /\ storeLog[2].ruleId = storeLog[1].selector
  /\ storeLog[3].ruleId = storeLog[1].selector
  /\ lastCall.fn = "deleteRule"
  /\ lastCall.ret
  /\ siteStyles["d1"].rules = <<>>

\* ------------------------------------------------------------------ C25
\* the css of the rules of a collection, in order
cssOf(cs) ==
  [i \in 1..Len(cs) |-> IF cs[i].css = <<Absent>> THEN <<>> ELSE cs[i].css]

\* C25: compileRulesToCSS of what is stored for a domain is the css of its
\* rules, in the order in which the ids were first inserted (an addRule of an
\* id the collection holds and an editRule leave the rule at its place, a
\* deleteRule takes the rule out and leaves the others in order), joined by a
\* blank line; it is the empty string when there is no rule.
C25_CompileInInsertionOrder ==
  \A expected \in {applyOperations(<<>>, storeLog)} :
    /\ contents(rulesFound(siteStyles, "d1")) = expected
    /\ siteStyles["d1"].kind = "styles"
         => /\ compileRulesToCSS(siteStyles["d1"])
                 = join(cssOf(expected), <<"\n", "\n">>)
            /\ expected = <<>> => compileRulesToCSS(siteStyles["d1"]) = <<>>

\* two rules are stored, the first inserted is first though it was written
\* again after the second was added, and the css is compiled in that order
C25_Witness ==
  /\ Len(storeLog) = 3
  /\ storeLog[1].op = "add"
  /\ storeLog[2].op = "add"
  /\ storeLog[2].selector # storeLog[1].selector
  /\ storeLog[3].op \in {"add", "edit"}
  /\ storeLog[3].css = <<"q">>
  /\ storeLog[1].css = <<"p">>
  /\ storeLog[2].css = <<"p">>
  /\ lastCall.ret.id = storeLog[1].selector
  /\ compileRulesToCSS(siteStyles["d1"]) = <<"q", "\n", "\n", "p">>

\* ------------------------------------------------------------------ C29
\* C29: while a run is between two tool calls (it has logged an operation
\* and waits for the provider or executes a batch), no other request the
\* background script handles (a second run, a toggle, a clear, a manual
\* apply, an undo) changes the aggregate stored for the run's domain.
C29_NoOtherWriterDuringRun ==
  [][(/\ pc \in {"awaiting", "executing"}
      /\ operations # <<>>
      /\ handled' # handled)
       => siteStyles'[runDomain] = siteStyles[runDomain]]_vars

\* ------------------------------------------------------------------ C30
\* C30: the storage write of a rule-store call on one domain leaves what is
\* stored for every other domain as it was, whatever the other context has
\* done between the call's read and its write.
C30_OtherDomainsUnchanged ==
  [][\A c \in Contexts :
       (inflight[c] # NoWrite /\ inflight'[c] = NoWrite)
         => \A d \in Domains \ {inflight[c].domain} :
              siteStyles'[d] = siteStyles[d]]_vars

\* ------------------------------------------------------------------ C28
\* C28: when handleUndo has finished for the assistant message at an index
\* of the conversation it was called on, the visible conversation and the
\* saved one are the messages before the user message that triggered the
\* turn (the message before the turn when it has role user, else the turn
\* itself): the turn, that user message and every later message are gone.
C28_UndoCutsBeforeTrigger ==
  lastCall.fn = "handleUndo" =>
    \A i \in {lastCall.messageIndex} :
      \A t \in {IF i > 1 /\ lastCall.messages[i - 1].role = "user"
                THEN i - 1 ELSE i} :
        /\ Len(conversation) = t - 1
        /\ \A j \in 1..(t - 1) : conversation[j] = lastCall.messages[j]
        /\ \A j \in t..Len(lastCall.messages) :
             \A k \in 1..Len(conversation) :
               conversation[k].id # lastCall.messages[j].id
        /\ chatHistory["d1"] = conversation

\* the first of two turns was undone, and the first prompt was all there was
\* before it: the conversation shown and saved is empty
C28_Witness ==
  /\ lastCall.fn = "handleUndo"
  /\ Len(lastCall.messages) = 4
  /\ lastCall.messageIndex = 2
  /\ lastCall.messages[1].role = "user"
  /\ conversation = <<>>
  /\ chatHistory["d1"] = <<>>

\* ------------------------------------------------------------------ C31
\* C31: the calls of one response are executed one at a time in the order
\* issued: each pass of the loop executes the first call not yet executed and
\* puts its result after the results of the earlier ones; a call sees what
\* the calls before it have stored, so an edit_rule or delete_rule right
\* after the add_rule of the same id in the same response finds the rule.
C31_BatchInOrder ==
  [][(pc = "executing" /\ functionResponses' # functionResponses)
       => /\ Len(functionResponses') = Len(functionResponses) + 1
          /\ SubSeq(functionResponses', 1, Len(functionResponses))
               = functionResponses
          /\ functionResponses'[Len(functionResponses')].name
               = Head(functionCalls).name
          /\ functionCalls' = Tail(functionCalls)
          /\ (/\ functionResponses # <<>>
              /\ lastCall.fn = "addRule"
              /\ lastCall'.fn \in {"editRule", "deleteRule"}
              /\ lastCall'.ruleId = lastCall.ret.id)
               => IF lastCall'.fn = "editRule" THEN lastCall'.ret # Null
                  ELSE lastCall'.ret]_vars

\* a response of add_rule and edit_rule of the same selector has been
\* executed on a domain without rules: the edit found the rule just added
C31_Witness ==
  /\ Len(functionResponses) = 2
  /\ functionResponses[1].name = "add_rule"
  /\ functionResponses[2].name = "edit_rule"
  /\ Len(storeLog) = 2
  /\ storeLog[1].op = "add"
  /\ storeLog[2].op = "edit"
  /\ lastCall.fn = "editRule"
  /\ lastCall.ret # Null
  /\ Len(rulesFound(siteStyles, "d1")) = 1

\* ------------------------------------------------------------------ C32
\* C32: when a GENERATE_STYLES request whose run changed the domain's rules
\* is answered, with success or with an error, the page has been sent the
\* compiled CSS of the rules stored for the domain: it shows what
\* STYLES_UPDATED with that CSS and the domain's enabled flag leaves.
C32_AnsweredRunsReachThePage ==
  [][(pc \in {"returning", "thrown"} /\ pc' = "idle" /\ storeLog # <<>>)
       => \A updatedStyles \in {getSiteStyles(siteStyles', runDomain, 0).ret} :
            /\ updatedStyles # Null
            /\ page' = stylesUpdated(compileRulesToCSS(updatedStyles),
                                     updatedStyles.enabled)]_vars

\* ------------------------------------------------------------------ C33
\* C33: when handleSubmit has its reply and the rules stored for the domain
\* are not those of the run's snapshot (the run changed them), the message
\* it puts on the conversation carries the run's snapshotId; so also when
\* the run ended with an error.
C33_ChangingRunsCanBeUndone ==
  [][(loading.on /\ ~loading'.on)
       => \A id \in {<<"d1", issued["d1"]>>} :
            (/\ id \in DOMAIN saved
             /\ saved[id] # rulesFound(siteStyles, "d1"))
              => /\ Len(conversation') = Len(conversation) + 1
                 /\ conversation'[Len(conversation')].role = "assistant"
                 /\ conversation'[Len(conversation')].snapshotId = id]_vars

\* ------------------------------------------------------------------ C34
\* C34: the id of every rule stored for the domain is a fixed point of
\* selectorToId, and for every selector whose normal form is the id of a
\* stored rule, edit_rule and delete_rule find that rule and read_rules
\* returns it.
C34_RulesFoundByAnyEquivalentSelector ==
  \A rules \in {rulesFound(siteStyles, "d1")} :
    \A i \in 1..Len(rules) :
      /\ selectorToId(rules[i].id) = rules[i].id
      /\ \A sel \in EquivalentSelectors :
           selectorToId(sel) = rules[i].id =>
             /\ executeTool(siteStyles, "edit_rule",
                            [NoInput EXCEPT !.selector = sel, !.css = <<"q">>],
                            "d1", <<>>, clock, clock, clock).call.ret # Null
             /\ executeTool(siteStyles, "delete_rule",
                            [NoInput EXCEPT !.selector = sel],
                            "d1", <<>>, clock, clock, clock).call.ret
             /\ \A r \in {executeTool(siteStyles, "read_rules",
                                       [NoInput EXCEPT !.selectors = <<sel>>],
                                       "d1", <<>>, clock, clock,
                                       clock).result} :
                  /\ r[1] = "JSON"
                  /\ Len(r[2]) = 1
                  /\ r[2][1].id = rules[i].id

\* a rule added with the selector 'b,a' is stored under the id 'a, b', next
\* to the rule of the manual apply
C34_Witness ==
  \E i, j \in 1..Len(rulesFound(siteStyles, "d1")) :
    /\ rulesFound(siteStyles, "d1")[i].selector = <<"b", ",", "a">>
    /\ rulesFound(siteStyles, "d1")[i].id = <<"a", ",", " ", "b">>
    /\ rulesFound(siteStyles, "d1")[j].id = MANUAL
    /\ rulesFound(siteStyles, "d1")[j].createdBy = "user"

\* C35: the text of thought-marked parts is appended to the run's thinking
\* output in arrival order and does nothing else: it never becomes the
\* explanation the run returns, adds nothing to the operation log, and the
\* loop goes on or ends as it would without the thought parts.
C35_ThoughtsOnlyFeedThinking ==
  [][(pc = "awaiting" /\ lastCall'.fn = "fetch" /\ lastCall'.status = 200)
       => LET parts == lastCall'.parts
              others == SelectSeq(parts, LAMBDA p : ~p.thought)
          IN /\ thinkingParts' = thinkingParts \o thoughtTexts(parts)
             /\ finalExplanation' \notin ThoughtTexts
             /\ operations' = operations
             /\ pc' = IF functionCallsOf(others) # <<>> THEN "executing"
                      ELSE "returning"]_vars

\* C36: when an undo request fails because its snapshot is not found, the
\* handleUndo that sent it leaves the conversation, visible and persisted,
\* as it is.
C36_FailedUndoKeepsConversation ==
  [][\A undo \in undoing :
       (/\ undo \notin undoing'
        /\ undo.response = Failure("UNDO_OPERATIONS", SNAPSHOT_NOT_FOUND))
         => /\ conversation' = conversation
            /\ chatHistory' = chatHistory]_vars

\* C37: an edit_rule call with css and without description, which finds its
\* rule, leaves the rule's description as it was, as it leaves its id,
\* selector, createdAt and createdBy.
C37_EditWithoutDescriptionKeepsIt ==
  [][\A i \in 1..Len(rulesFound(siteStyles, "d1")) :
       LET rule == rulesFound(siteStyles, "d1")[i]
           edit == [op |-> "edit", ruleId |-> rule.id, css |-> <<"p">>,
                    description |-> Undefined]
       IN operations' = <<edit>>
            => LET updatedRule == rulesFound(siteStyles', "d1")[i]
               IN /\ updatedRule.css = <<"p">>
                  /\ updatedRule.description = rule.description
                  /\ updatedRule.id = rule.id
                  /\ updatedRule.selector = rule.selector
                  /\ updatedRule.createdAt = rule.createdAt
                  /\ updatedRule.createdBy = rule.createdBy]_vars

\* C38: only a toggle changes the enabled flag: on a domain whose styles were
\* disabled, whatever is added, edited, deleted or restored by an undo, what
\* is stored for the domain is never enabled.
C38_DisabledStaysDisabled ==
  siteStyles["d1"] # NoEntry => ~siteStyles["d1"].enabled

\* C39: when a page of the domain loads or the domain's styles are switched
\* back on, and the stored aggregate is enabled and has a rule, the page
\* shows the compiled css of the rules; switching off removes the css.
C39_StoredStylesShowOnLoadAndToggle ==
  [][LET stored == siteStyles'["d1"]
         toggled == /\ handled' = handled + 1
                    /\ response' = Success("TOGGLE_SITE_STYLES")
     IN /\ (/\ lastCall'.fn = "loadSavedStyles" \/ toggled
            /\ stored.kind = "styles"
            /\ stored.enabled
            /\ stored.rules # <<>>)
          => page' = compileRulesToCSS(stored)
        /\ (toggled /\ ~stored.enabled) => page' = NoStyle]_vars

\* C40: Escape pressed while the picker is active makes it inactive and calls
\* the onCancel given to startPicker exactly once; startPicker while active
\* changes nothing; while the picker is stopped no click calls onPick.
C40_EscapeCancelsOnce ==
  [][/\ (isActive /\ lastCall'.fn = "handleKeyDown" /\ lastCall'.key = "Escape")
          => /\ ~isActive'
             /\ cancelled' = Append(cancelled, onCancelCallback)
     /\ (isActive /\ lastCall'.fn = "startPicker") => UNCHANGED pickVars
     /\ (~isActive /\ lastCall'.fn = "handleClick") => picked' = picked]_vars

====
